---- MODULE Spec2Model ----
(***************************************************************************)
(* WebSecVisualizer: the scan orchestrator (SecurityScanner), the scan     *)
(* routes that create and read scan records, and the helpers they call.   *)
(*                                                                         *)
(* JavaScript runs one task at a time and a task gives up the thread only  *)
(* at an await.  A step of the model is therefore a piece of code between *)
(* two awaits, cut further only where a claim speaks of the order of two   *)
(* statements; a task that is cut this way keeps the thread (Running) and  *)
(* no request handler or other task can take a step until it reaches its   *)
(* next await.                                                             *)
(*                                                                         *)
(* Analyzers are the environment of the orchestrator: an invocation ends   *)
(* by resolving with a result or by rejecting, or it never ends.           *)
(*                                                                         *)
(* Spec is the server with its scans; SpecPair the same with two scans     *)
(* under way together; SpecInstance the instance variant of the scanner;   *)
(* SpecRead the read routes on the records a scan leaves; SpecRequest a    *)
(* POST request with its response; SpecProgress the ScanProgress component *)
(* polling a running scan.  SpecRiskLevel, SpecAggregate, SpecSort,        *)
(* SpecSummary, SpecGrade, SpecAnalyze, SpecSynth and SpecRender call      *)
(* single functions on their inputs.                                       *)
(***************************************************************************)
EXTENDS Integers, Sequences, FiniteSets, TLC

\* ------------------------------------------------------------------ bounds
\* Number of scan ids the run may use (uuidv4 gives each call a fresh one).
MaxScans == 1
\* Number of analyzer invocations of a run that end otherwise than with a
\* full result.
MaxFaults == 1

\* Number of startScan calls made on the SecurityScanner object of the
\* instance variant.
MaxCalls == 2

ScanIds == 1..MaxScans
Calls == 1..MaxCalls

\* ----------------------------------------------------------- JS primitives
\* null, undefined and a Map lookup that misses.
Null == [null |-> TRUE]
Undefined == [undefined |-> TRUE]
\* new Date().toISOString(): the model keeps only that a time was written.
Timestamp == [iso |-> "now"]

\* Math.round(num / den) for num >= 0, den > 0: halves round up.
Round(num, den) == (2 * num + den) \div (2 * den)

Max(a, b) == IF a >= b THEN a ELSE b

RECURSIVE SelectSeqCount(_, _)
\* number of elements of seq s that belong to set S (s.filter(..).length)
SelectSeqCount(s, S) ==
  IF s = <<>> THEN 0
  ELSE (IF Head(s) \in S THEN 1 ELSE 0) + SelectSeqCount(Tail(s), S)

\* -------------------------------------------------------------- validators
\* A request body's url: absent, or a string that the WHATWG URL parser
\* accepts or rejects, with the scheme the string starts with.
Urls ==
  { [given |-> FALSE, parses |-> FALSE, scheme |-> "none"],
    [given |-> TRUE, parses |-> FALSE, scheme |-> "none"],
    [given |-> TRUE, parses |-> TRUE, scheme |-> "ftp"],
    [given |-> TRUE, parses |-> TRUE, scheme |-> "http"],
    [given |-> TRUE, parses |-> TRUE, scheme |-> "https"] }

\* validateUrl that only asks whether new URL(url) parses
validateUrl_anyScheme(url) ==
  IF ~url.given THEN FALSE
  ELSE url.parses

validateUrl(url) ==
  IF ~url.given THEN FALSE
  ELSE IF ~url.parses THEN FALSE
  ELSE url.scheme \in {"http", "https"}

\* ------------------------------------------------- analyzers (environment)
\* The result an analyzer resolves with on its normal path: one
\* representative result per dimension, carrying the fields the orchestrator
\* and the routes read.
\* A recommendation an analyzer gives as a plain string.
StrRec(s) == [text |-> s]

getRequiredHeaders ==
  << "Content-Security-Policy", "X-Frame-Options", "X-Content-Type-Options",
     "Strict-Transport-Security", "X-XSS-Protection", "Referrer-Policy",
     "Permissions-Policy" >>

\* MalwareAnalyzer: the result for a clean URL (no vendor of total flags
\* it), and the result it gives when it catches its own failure.
MalwareResult == [malicious |-> 0, total |-> 70, score |-> 100, recommendations |-> <<>>]

MalwareErrorResult ==
  [error |-> "failed", malicious |-> 0, total |-> 0, score |-> 0,
   recommendations |-> <<StrRec("Check connectivity")>>]

FullResult(name) ==
  CASE name = "malware" -> MalwareResult
    [] name = "ssl" ->
         [grade |-> "B", score |-> 75,
          recommendations |-> <<StrRec("Disable TLS 1.0 and 1.1 protocols")>>]
    [] name = "headers" ->
         [score |-> 65, missingHeaders |-> <<"X-Frame-Options", "Referrer-Policy">>,
          recommendations |-> <<StrRec("Add X-Frame-Options header")>>]
    [] name = "tech" ->
         [technologies |-> << [name |-> "jQuery", outdated |-> TRUE],
                              [name |-> "Nginx", outdated |-> FALSE] >>,
          score |-> 75, recommendations |-> <<StrRec("Update outdated technologies")>>]
    [] name = "ports" ->
         [openPorts |-> <<80, 443>>, score |-> 90, recommendations |-> <<>>]
    [] name = "whois" ->
         [score |-> 80, recommendations |-> <<>>]

\* The result an analyzer resolves with when it catches its own failure.
ErrorResult(name) ==
  CASE name = "malware" -> MalwareErrorResult
    [] name = "ssl" ->
         [grade |-> "F", error |-> "failed", score |-> 0,
          recommendations |-> <<StrRec("Check SSL configuration")>>]
    [] name = "headers" ->
         [score |-> 0, error |-> "failed", missingHeaders |-> getRequiredHeaders,
          recommendations |-> <<StrRec("Check server configuration")>>]
    [] name = "tech" ->
         [error |-> "failed", technologies |-> <<>>, score |-> 0,
          recommendations |-> <<StrRec("Check website accessibility")>>]
    [] name = "ports" ->
         [error |-> "failed", openPorts |-> <<>>, score |-> 0,
          recommendations |-> <<StrRec("Unable to perform port scan - check network connectivity")>>]
    [] name = "whois" ->
         [error |-> "failed", score |-> 0,
          recommendations |-> <<StrRec("Unable to retrieve domain information - verify domain exists")>>]

\* How an invocation of an analyzer can end:
\*   "ok"         resolves with its full result
\*   "degraded"   resolves with its own error result
\*   "throw"      rejects with an Error
\*   "rejectNull" rejects with null or undefined (reading error.message throws)
Outcomes == {"ok", "degraded", "throw", "rejectNull"}

\* ------------------------------------------------------------ orchestrator
\* The step table in the order and with the weights of the end-to-end
\* scenario: SSL, Headers, Tech, Malware, Ports, Whois; 20,20,15,20,15,10.
scanSteps_scenario ==
  << [name |-> "ssl", weight |-> 20],
     [name |-> "headers", weight |-> 20],
     [name |-> "tech", weight |-> 15],
     [name |-> "malware", weight |-> 20],
     [name |-> "ports", weight |-> 15],
     [name |-> "whois", weight |-> 10] >>

\* The step table with the last weight of the instance variant's table.
scanSteps_whois15 ==
  << [name |-> "malware", weight |-> 20],
     [name |-> "ssl", weight |-> 20],
     [name |-> "headers", weight |-> 20],
     [name |-> "tech", weight |-> 15],
     [name |-> "ports", weight |-> 15],
     [name |-> "whois", weight |-> 15] >>

\* SecurityScanner.startScan: the step table.
scanSteps ==
  << [name |-> "malware", weight |-> 20],
     [name |-> "ssl", weight |-> 20],
     [name |-> "headers", weight |-> 20],
     [name |-> "tech", weight |-> 15],
     [name |-> "ports", weight |-> 15],
     [name |-> "whois", weight |-> 10] >>

NumSteps == Len(scanSteps)

RECURSIVE SumWeights(_, _)
\* steps.slice(0, k).reduce((sum, step) => sum + step.weight, 0)
SumWeights(steps, k) ==
  IF k = 0 THEN 0 ELSE SumWeights(steps, k - 1) + steps[k].weight

totalWeight == SumWeights(scanSteps, NumSteps)

\* Math.round((completedWeight / totalWeight) * 100)
ProgressOf(completedWeight) == Round(completedWeight * 100, totalWeight)

RiskyPortList == {21, 23, 25, 53, 80, 110, 143, 993, 995}

RECURSIVE CountOutdated(_)
CountOutdated(techs) ==
  IF techs = <<>> THEN 0
  ELSE (IF Head(techs).outdated THEN 1 ELSE 0) + CountOutdated(Tail(techs))

\* results.x.f || dflt, for a field that may be missing
FieldOr(r, f, dflt) == IF f \in DOMAIN r THEN r[f] ELSE dflt

\* SecurityScanner.calculateRiskScore: each dimension's contribution, in
\* hundredths so that the malware percentage stays an integer.
SslPoints(ssl) ==
  LET g == FieldOr(ssl, "grade", "")
  IN  IF g \in {"A+", "A"} THEN 100
      ELSE IF g = "B" THEN 75
      ELSE IF g = "C" THEN 50
      ELSE IF g = "D" THEN 25
      ELSE 0

MalwarePoints100(m) ==
  LET maliciousCount == FieldOr(m, "malicious", 0)
      totalCount == IF FieldOr(m, "total", 0) = 0 THEN 1 ELSE m.total
  IN  Max(0, 10000 - (maliciousCount * 10000) \div totalCount)

PortPoints(p) ==
  Max(0, 100 - SelectSeqCount(FieldOr(p, "openPorts", <<>>), RiskyPortList) * 20)

TechPoints(t) ==
  Max(0, 100 - CountOutdated(FieldOr(t, "technologies", <<>>)) * 10)

calculateRiskScore(results) ==
  LET has(d) == results[d] # Null
      score100 ==
          (IF has("ssl") THEN 100 * SslPoints(results["ssl"]) ELSE 0)
        + (IF has("headers") THEN 100 * FieldOr(results["headers"], "score", 0) ELSE 0)
        + (IF has("malware") THEN MalwarePoints100(results["malware"]) ELSE 0)
        + (IF has("ports") THEN 100 * PortPoints(results["ports"]) ELSE 0)
        + (IF has("tech") THEN 100 * TechPoints(results["tech"]) ELSE 0)
      maxScore ==
        100 * Cardinality({d \in {"ssl", "headers", "malware", "ports", "tech"} : has(d)})
  IN  IF maxScore > 0 THEN Round(score100, maxScore) ELSE 0

\* getRiskLevel with strict comparisons.
getRiskLevel_strict(score) ==
  IF score > 80 THEN "low"
  ELSE IF score > 60 THEN "medium"
  ELSE IF score > 40 THEN "high"
  ELSE "critical"

getRiskLevel(score) ==
  IF score >= 80 THEN "low"
  ELSE IF score >= 60 THEN "medium"
  ELSE IF score >= 40 THEN "high"
  ELSE "critical"

\* SecurityScanner.generateRecommendations: the comparator's key.
priorityOrder(p) ==
  CASE p = "critical" -> 0 [] p = "high" -> 1 [] p = "medium" -> 2 [] p = "low" -> 3

RECURSIVE InsertByPriority(_, _)
\* r goes after every element whose key is <= its own (a stable sort)
InsertByPriority(sorted, r) ==
  IF sorted = <<>> THEN <<r>>
  ELSE IF priorityOrder(Head(sorted).priority) <= priorityOrder(r.priority)
       THEN <<Head(sorted)>> \o InsertByPriority(Tail(sorted), r)
       ELSE <<r>> \o sorted

RECURSIVE SortByPriority(_)
\* Array.prototype.sort with the priority comparator (stable since ES2019)
SortByPriority(recs) ==
  IF recs = <<>> THEN <<>>
  ELSE InsertByPriority(SortByPriority(SubSeq(recs, 1, Len(recs) - 1)), recs[Len(recs)])

Rec(category, priority, title) ==
  [category |-> category, priority |-> priority, title |-> title]

SeqContains(s, x) == \E i \in 1..Len(s) : s[i] = x

generateRecommendations(results) ==
  LET has(d) == results[d] # Null
      grade == FieldOr(results["ssl"], "grade", "")
      missingHeaders == FieldOr(results["headers"], "missingHeaders", <<>>)
      sslRecs ==
        IF ~has("ssl") THEN <<>>
        ELSE IF grade \in {"F", "E"}
             THEN <<Rec("SSL/TLS", "high", "Upgrade SSL/TLS Configuration")>>
        ELSE IF grade \in {"D", "C"}
             THEN <<Rec("SSL/TLS", "medium", "Improve SSL/TLS Security")>>
        ELSE <<>>
      headerRec(h, prio, title) ==
        IF has("headers") /\ SeqContains(missingHeaders, h)
        THEN <<Rec("Security Headers", prio, title)>> ELSE <<>>
      headerRecs ==
           headerRec("Content-Security-Policy", "high", "Add Content Security Policy")
        \o headerRec("X-Frame-Options", "medium", "Add X-Frame-Options")
        \o headerRec("X-Content-Type-Options", "medium", "Add X-Content-Type-Options")
        \o headerRec("Strict-Transport-Security", "high", "Add HSTS Header")
      malwareRecs ==
        IF has("malware") /\ FieldOr(results["malware"], "malicious", 0) > 0
        THEN <<Rec("Malware", "critical", "Malware Detected")>> ELSE <<>>
      portRecs ==
        IF has("ports")
           /\ SelectSeqCount(FieldOr(results["ports"], "openPorts", <<>>), RiskyPortList) > 0
        THEN <<Rec("Network Security", "medium", "Close Unnecessary Ports")>> ELSE <<>>
      techRecs ==
        IF has("tech") /\ CountOutdated(FieldOr(results["tech"], "technologies", <<>>)) > 0
        THEN <<Rec("Technology Stack", "medium", "Update Outdated Technologies")>> ELSE <<>>
  IN  SortByPriority(sslRecs \o headerRecs \o malwareRecs \o portRecs \o techRecs)

\* ------------------------------------------------------------ scan routes
ResultKeys == {"malware", "ssl", "headers", "tech", "ports", "whois"}

\* router.post('/'): the record a scan starts from.
NewScanResult(scanId, url) ==
  [id |-> scanId, url |-> url, status |-> "pending", progress |-> 0,
   startTime |-> Timestamp, endTime |-> Undefined,
   results |-> [malware |-> Null, ssl |-> Null, headers |-> Null, tech |-> Null,
                ports |-> Null, whois |-> Null, riskScore |-> Null,
                recommendations |-> <<>>],
   errors |-> <<>>]

\* calculateRiskLevel without the return for totalChecks === 0.
calculateRiskLevel_noChecksHigh(results) ==
  LET has(d) == results[d] # Null
      sslGrade == FieldOr(results["ssl"], "grade", "")
      malicious == FieldOr(results["malware"], "malicious", 10)
      risky == SelectSeqCount(FieldOr(results["ports"], "openPorts", <<>>), RiskyPortList)
      score10 ==
          (IF ~has("ssl") THEN 0
           ELSE IF sslGrade \in {"A", "A+"} THEN 100
           ELSE IF sslGrade = "B" THEN 70
           ELSE IF sslGrade = "C" THEN 40 ELSE 10)
        + (IF has("headers") THEN FieldOr(results["headers"], "score", 0) ELSE 0)
        + (IF ~has("malware") THEN 0
           ELSE IF malicious = 0 THEN 100
           ELSE IF malicious < 5 THEN 70
           ELSE IF malicious < 10 THEN 40 ELSE 10)
        + (IF ~has("ports") THEN 0
           ELSE IF risky = 0 THEN 100
           ELSE IF risky < 3 THEN 70 ELSE 40)
      totalChecks == Cardinality({d \in {"ssl", "headers", "malware", "ports"} : has(d)})
      allNull == \A k \in DOMAIN results : k # "recommendations" /\ results[k] = Null
  IN  IF allNull THEN "unknown"
      ELSE IF score10 >= 80 * totalChecks /\ totalChecks > 0 THEN "low"
      ELSE IF score10 >= 50 * totalChecks /\ totalChecks > 0 THEN "medium"
      ELSE "high"

\* calculateRiskLevel of the routes, with the score in tenths of a point.
calculateRiskLevel(results) ==
  LET has(d) == results[d] # Null
      sslGrade == FieldOr(results["ssl"], "grade", "")
      \* a missing count is undefined: not === 0, not < 5, not < 10
      malicious == FieldOr(results["malware"], "malicious", 10)
      risky == SelectSeqCount(FieldOr(results["ports"], "openPorts", <<>>), RiskyPortList)
      score10 ==
          (IF ~has("ssl") THEN 0
           ELSE IF sslGrade \in {"A", "A+"} THEN 100
           ELSE IF sslGrade = "B" THEN 70
           ELSE IF sslGrade = "C" THEN 40 ELSE 10)
        + (IF has("headers") THEN FieldOr(results["headers"], "score", 0) ELSE 0)
        + (IF ~has("malware") THEN 0
           ELSE IF malicious = 0 THEN 100
           ELSE IF malicious < 5 THEN 70
           ELSE IF malicious < 10 THEN 40 ELSE 10)
        + (IF ~has("ports") THEN 0
           ELSE IF risky = 0 THEN 100
           ELSE IF risky < 3 THEN 70 ELSE 40)
      totalChecks == Cardinality({d \in {"ssl", "headers", "malware", "ports"} : has(d)})
      \* Object.values(results).every(r => r === null): the value under
      \* recommendations is an array, which is never null
      allNull == \A k \in DOMAIN results : k # "recommendations" /\ results[k] = Null
  IN  IF allNull THEN "unknown"
      ELSE IF totalChecks = 0 THEN "unknown"
      ELSE IF score10 >= 80 * totalChecks THEN "low"
      ELSE IF score10 >= 50 * totalChecks THEN "medium"
      ELSE "high"

\* generateSummary that counts headers below 80 as failed.
generateSummary_headersBelow80Failed(results) ==
  LET has(d) == results[d] # Null
      sslPass == has("ssl") /\ FieldOr(results["ssl"], "grade", "") \in {"A", "A+"}
      hs == FieldOr(results["headers"], "score", 0)
      malPass == has("malware") /\ FieldOr(results["malware"], "malicious", -1) = 0
      risky == SelectSeqCount(FieldOr(results["ports"], "openPorts", <<>>), RiskyPortList)
      B(b) == IF b THEN 1 ELSE 0
  IN  [totalChecks |-> Cardinality({d \in {"ssl", "headers", "malware", "ports"} : has(d)}),
       passedChecks |-> B(sslPass) + B(has("headers") /\ hs >= 80) + B(malPass)
                        + B(has("ports") /\ risky = 0),
       failedChecks |-> B(has("ssl") /\ ~sslPass) + B(has("headers") /\ hs < 80)
                        + B(has("malware") /\ ~malPass),
       warnings |-> B(has("headers") /\ hs >= 60 /\ hs < 80) + B(has("ports") /\ risky > 0)]

\* generateSummary of the routes.
generateSummary(results) ==
  LET has(d) == results[d] # Null
      sslPass == has("ssl") /\ FieldOr(results["ssl"], "grade", "") \in {"A", "A+"}
      hs == FieldOr(results["headers"], "score", 0)
      malPass == has("malware") /\ FieldOr(results["malware"], "malicious", -1) = 0
      risky == SelectSeqCount(FieldOr(results["ports"], "openPorts", <<>>), RiskyPortList)
      B(b) == IF b THEN 1 ELSE 0
  IN  [totalChecks |-> Cardinality({d \in {"ssl", "headers", "malware", "ports"} : has(d)}),
       passedChecks |-> B(sslPass) + B(has("headers") /\ hs >= 80) + B(malPass)
                        + B(has("ports") /\ risky = 0),
       failedChecks |-> B(has("ssl") /\ ~sslPass) + B(has("headers") /\ hs < 60)
                        + B(has("malware") /\ ~malPass),
       warnings |-> B(has("headers") /\ hs >= 60 /\ hs < 80) + B(has("ports") /\ risky > 0)]

\* ------------------------------------------------------------------ state
VARIABLES
  scanResults,      \* the routes' Map: scan id -> record, or NoRecord
  pc,               \* where the startScan task of each id stands
  stepIdx,          \* startScan: index of the step the loop is at
  completedWeight,  \* startScan: its local completedWeight
  invoked,          \* per id, the analyzers invoked so far, in order
  failedLog,        \* ids for which startScan's outer catch has run
  faults,           \* analyzer invocations that did not end with a full result
  nextId,           \* the next unused scan id
  \* the SecurityScanner object of the instance variant and its startScan calls
  iProgress,        \* this.progress
  iResults,         \* this.results: the keys written so far
  iPc,              \* where each startScan call stands
  iStep,            \* per call, the index of the step its loop is at
  iReturn,          \* per call, the value startScan returned
  iFaults,          \* analyzer invocations that did not end with a full result
  \* a function of the program called on its own
  arg,              \* the argument it is called with
  ret               \* the value it returned, Null before the call

scanVars ==
  << scanResults, pc, stepIdx, completedWeight, invoked, failedLog, faults, nextId >>

instVars == << iProgress, iResults, iPc, iStep, iReturn, iFaults >>

callVars == << arg, ret >>

vars == << scanVars, instVars, callVars >>

NoRecord == [absent |-> TRUE]

\* A task between two statements of one synchronous stretch holds the thread.
SyncPcs == {"start", "invoke", "finish"}
Running == \E id \in DOMAIN pc : pc[id] \in SyncPcs

\* new SecurityScanner() of the instance variant, no startScan called yet.
InitScanner ==
  /\ iProgress = 0
  /\ iResults = [k \in {} |-> Null]
  /\ iPc = [c \in Calls |-> "none"]
  /\ iStep = [c \in Calls |-> 0]
  /\ iReturn = [c \in Calls |-> Undefined]
  /\ iFaults = 0

\* The server after start-up, with room for the scans of ids.
InitOver(ids) ==
  /\ scanResults = [id \in ids |-> NoRecord]
  /\ pc = [id \in ids |-> "none"]
  /\ stepIdx = [id \in ids |-> 0]
  /\ completedWeight = [id \in ids |-> 0]
  /\ invoked = [id \in ids |-> <<>>]
  /\ failedLog = {}
  /\ faults = 0
  /\ nextId = 1
  /\ InitScanner

NoCall == arg = Null /\ ret = Null

Init == InitOver(ScanIds) /\ NoCall

\* ------------------------------------------ startScan: its record updates
\* BeginScan that resets the progress but leaves the status as it was.
BeginScan_keepsStatus(rec) == [rec EXCEPT !.progress = 0]

\* lines 168-169
BeginScan(rec) == [rec EXCEPT !.status = "scanning", !.progress = 0]

\* StoreResult that takes the step's own weight for the completed weight.
StoreResult_stepWeight(rec, step, result, cw) ==
  [rec EXCEPT !.results[step.name] = result, !.progress = ProgressOf(step.weight)]

\* lines 193-196: the analyzer resolved
StoreResult(rec, step, result, cw) ==
  [rec EXCEPT !.results[step.name] = result, !.progress = ProgressOf(cw)]

\* RecordStepError that also clears the results stored by the steps before.
RecordStepError_clearsResults(rec, step, cw) ==
  [rec EXCEPT !.errors = Append(@, [step |-> step.name, error |-> "analysis failed"]),
              !.results = [k \in DOMAIN @ |-> IF k \in ResultKeys THEN Null ELSE @[k]],
              !.progress = ProgressOf(cw)]

\* lines 202-210: the analyzer rejected with an Error
RecordStepError(rec, step, cw) ==
  [rec EXCEPT !.errors = Append(@, [step |-> step.name, error |-> "analysis failed"]),
              !.progress = ProgressOf(cw)]

\* CompleteScan that marks the record completed without the aggregates.
CompleteScan_noAggregates(rec) ==
  [rec EXCEPT !.status = "completed", !.progress = 100, !.endTime = Timestamp]

\* lines 221-227
CompleteScan(rec) ==
  [rec EXCEPT !.results.riskScore = [num |-> calculateRiskScore(rec.results)],
              !.results.recommendations = generateRecommendations(rec.results),
              !.status = "completed",
              !.progress = 100,
              !.endTime = Timestamp]

\* FailScan that marks the record failed without recording the error.
FailScan_noError(rec) == [rec EXCEPT !.status = "failed"]

\* lines 239-244: the outer catch, when the record is there
FailScan(rec) ==
  [rec EXCEPT !.status = "failed",
              !.errors = Append(@, [step |-> "general", error |-> "scan failed"])]

\* --------------------------------------------------------------- actions
\* A request handler answers its client and, unless it says otherwise, leaves
\* the server's state as it was: its response is a function of the state it
\* reads (PostResponse, GetScanResponse, GetStatusResponse).

\* POST /: validate, create the record, call startScan (which runs, in the
\* same turn, up to its first await: StartScan and InvokeAnalyzer below).
PostRejects(url) == ~url.given \/ ~validateUrl(url)

PostResponse(url, scanId) ==
  IF PostRejects(url)
  THEN [code |-> 400, error |-> "Invalid URL"]
  ELSE [code |-> 201, scanId |-> scanId, status |-> "pending"]

Post(url) ==
  /\ ~Running
  /\ IF PostRejects(url)
     THEN UNCHANGED vars
     ELSE /\ nextId \in DOMAIN scanResults
          /\ scanResults' = [scanResults EXCEPT ![nextId] = NewScanResult(nextId, url)]
          /\ pc' = [pc EXCEPT ![nextId] = "start"]
          /\ nextId' = nextId + 1
          /\ UNCHANGED << stepIdx, completedWeight, invoked, failedLog, faults >>
          /\ UNCHANGED << instVars, callVars >>

\* SecurityScanner.startScan is exported and is handed the store; this is a
\* call with a scan id under which the store it is handed holds no record
\* (the case lines 163-165 and 238 of startScan provide for).
StartScanUnknownId ==
  /\ ~Running
  /\ nextId \in DOMAIN scanResults
  /\ pc' = [pc EXCEPT ![nextId] = "start"]
  /\ nextId' = nextId + 1
  /\ UNCHANGED << scanResults, stepIdx, completedWeight, invoked, failedLog,
                  faults >>
  /\ UNCHANGED << instVars, callVars >>

\* startScan lines 159-185; without a record, the throw of line 164 and the
\* outer catch, which finds no record to mark.
StartScan(id) ==
  /\ pc[id] = "start"
  /\ IF scanResults[id] = NoRecord
     THEN /\ failedLog' = failedLog \cup {id}
          /\ pc' = [pc EXCEPT ![id] = "done"]
          /\ UNCHANGED << scanResults, stepIdx, completedWeight >>
     ELSE /\ scanResults' = [scanResults EXCEPT ![id] = BeginScan(@)]
          /\ stepIdx' = [stepIdx EXCEPT ![id] = 1]
          /\ completedWeight' = [completedWeight EXCEPT ![id] = 0]
          /\ pc' = [pc EXCEPT ![id] = "invoke"]
          /\ UNCHANGED failedLog
  /\ UNCHANGED << invoked, faults, nextId >>
  /\ UNCHANGED << instVars, callVars >>

\* InvokeAnalyzer that starts the analyzers of all remaining steps together.
InvokeAnalyzer_allAtOnce(id) ==
  /\ pc[id] = "invoke"
  /\ invoked' = [invoked EXCEPT
                   ![id] = @ \o [k \in 1..(NumSteps - stepIdx[id] + 1) |->
                                   scanSteps[stepIdx[id] + k - 1].name]]
  /\ pc' = [pc EXCEPT ![id] = "await"]
  /\ UNCHANGED << scanResults, stepIdx, completedWeight, failedLog, faults,
                  nextId >>
  /\ UNCHANGED << instVars, callVars >>

\* line 192: step.analyzer() is called and awaited.
InvokeAnalyzer(id) ==
  /\ pc[id] = "invoke"
  /\ invoked' = [invoked EXCEPT ![id] = Append(@, scanSteps[stepIdx[id]].name)]
  /\ pc' = [pc EXCEPT ![id] = "await"]
  /\ UNCHANGED << scanResults, stepIdx, completedWeight, failedLog, faults,
                  nextId >>
  /\ UNCHANGED << instVars, callVars >>

\* AnalyzerSettles with completedWeight kept in one place for all scans.
AnalyzerSettles_sharedWeight(id, outcome) ==
  LET step == scanSteps[stepIdx[id]]
      all[k \in 0..Cardinality(DOMAIN completedWeight)] ==
        IF k = 0 THEN 0 ELSE completedWeight[k] + all[k - 1]
      cw == all[Cardinality(DOMAIN completedWeight)] + step.weight
  IN
  /\ ~Running
  /\ pc[id] = "await"
  /\ outcome # "ok" => faults < MaxFaults
  /\ faults' = IF outcome = "ok" THEN faults ELSE faults + 1
  /\ CASE outcome = "ok" ->
            /\ scanResults' = [scanResults EXCEPT
                                 ![id] = StoreResult(@, step, FullResult(step.name), cw)]
            /\ completedWeight' = [completedWeight EXCEPT ![id] = cw]
            /\ pc' = [pc EXCEPT ![id] = "delay"]
            /\ UNCHANGED failedLog
       [] outcome = "degraded" ->
            /\ scanResults' = [scanResults EXCEPT
                                 ![id] = StoreResult(@, step, ErrorResult(step.name), cw)]
            /\ completedWeight' = [completedWeight EXCEPT ![id] = cw]
            /\ pc' = [pc EXCEPT ![id] = "delay"]
            /\ UNCHANGED failedLog
       [] outcome = "throw" ->
            /\ scanResults' = [scanResults EXCEPT ![id] = RecordStepError(@, step, cw)]
            /\ completedWeight' = [completedWeight EXCEPT ![id] = cw]
            /\ pc' = [pc EXCEPT ![id] = "delay"]
            /\ UNCHANGED failedLog
       [] outcome = "rejectNull" ->
            /\ scanResults' = [scanResults EXCEPT ![id] = FailScan(@)]
            /\ failedLog' = failedLog \cup {id}
            /\ pc' = [pc EXCEPT ![id] = "done"]
            /\ UNCHANGED completedWeight
  /\ UNCHANGED << stepIdx, invoked, nextId >>
  /\ UNCHANGED << instVars, callVars >>

\* lines 193-217: the awaited analyzer settles; the step is recorded and the
\* task waits for its one-second timer.  A rejection with null or undefined
\* makes line 201 throw, which ends the loop in the outer catch.
AnalyzerSettles(id, outcome) ==
  LET step == scanSteps[stepIdx[id]]
      cw == completedWeight[id] + step.weight
  IN
  /\ ~Running
  /\ pc[id] = "await"
  /\ outcome # "ok" => faults < MaxFaults
  /\ faults' = IF outcome = "ok" THEN faults ELSE faults + 1
  /\ CASE outcome = "ok" ->
            /\ scanResults' = [scanResults EXCEPT
                                 ![id] = StoreResult(@, step, FullResult(step.name), cw)]
            /\ completedWeight' = [completedWeight EXCEPT ![id] = cw]
            /\ pc' = [pc EXCEPT ![id] = "delay"]
            /\ UNCHANGED failedLog
       [] outcome = "degraded" ->
            /\ scanResults' = [scanResults EXCEPT
                                 ![id] = StoreResult(@, step, ErrorResult(step.name), cw)]
            /\ completedWeight' = [completedWeight EXCEPT ![id] = cw]
            /\ pc' = [pc EXCEPT ![id] = "delay"]
            /\ UNCHANGED failedLog
       [] outcome = "throw" ->
            /\ scanResults' = [scanResults EXCEPT ![id] = RecordStepError(@, step, cw)]
            /\ completedWeight' = [completedWeight EXCEPT ![id] = cw]
            /\ pc' = [pc EXCEPT ![id] = "delay"]
            /\ UNCHANGED failedLog
       [] outcome = "rejectNull" ->
            /\ scanResults' = [scanResults EXCEPT ![id] = FailScan(@)]
            /\ failedLog' = failedLog \cup {id}
            /\ pc' = [pc EXCEPT ![id] = "done"]
            /\ UNCHANGED completedWeight
  /\ UNCHANGED << stepIdx, invoked, nextId >>
  /\ UNCHANGED << instVars, callVars >>

\* line 192: nothing bounds the await.  The promise of step.analyzer() may
\* stay pending for ever (WhoisAnalyzer.getWhoisData awaits whois.lookup with
\* no timer; the request timeouts of the other analyzers are idle timeouts);
\* the task is then never resumed.
AnalyzerNeverSettles(id) ==
  /\ ~Running
  /\ pc[id] = "await"
  /\ faults < MaxFaults
  /\ faults' = faults + 1
  /\ pc' = [pc EXCEPT ![id] = "pending"]
  /\ UNCHANGED << scanResults, stepIdx, completedWeight, invoked, failedLog,
                  nextId >>
  /\ UNCHANGED << instVars, callVars >>

\* line 217 and the loop header: the timer fires, the loop moves on.
DelayElapsed(id) ==
  /\ ~Running
  /\ pc[id] = "delay"
  /\ IF stepIdx[id] < NumSteps
     THEN /\ stepIdx' = [stepIdx EXCEPT ![id] = @ + 1]
          /\ pc' = [pc EXCEPT ![id] = "invoke"]
     ELSE /\ pc' = [pc EXCEPT ![id] = "finish"]
          /\ UNCHANGED stepIdx
  /\ UNCHANGED << scanResults, completedWeight, invoked, failedLog, faults,
                  nextId >>
  /\ UNCHANGED << instVars, callVars >>

\* lines 221-232: aggregate and complete.
Finish(id) ==
  /\ pc[id] = "finish"
  /\ scanResults' = [scanResults EXCEPT ![id] = CompleteScan(@)]
  /\ pc' = [pc EXCEPT ![id] = "done"]
  /\ UNCHANGED << stepIdx, completedWeight, invoked, failedLog, faults,
                  nextId >>
  /\ UNCHANGED << instVars, callVars >>

\* GET /:scanId
GetScanResponse(id) ==
  IF scanResults[id] = NoRecord
  THEN [code |-> 404, error |-> "Scan not found"]
  ELSE LET scanResult == scanResults[id]
       IN  [code |-> 200, scanId |-> scanResult.id, url |-> scanResult.url,
            status |-> scanResult.status, progress |-> scanResult.progress,
            startTime |-> scanResult.startTime, endTime |-> scanResult.endTime,
            results |-> scanResult.results, errors |-> scanResult.errors,
            riskLevel |-> calculateRiskLevel(scanResult.results),
            summary |-> generateSummary(scanResult.results)]

GetScan(id) ==
  /\ ~Running
  /\ UNCHANGED vars

\* GET /:scanId/status
GetStatusResponse(id) ==
  IF scanResults[id] = NoRecord
  THEN [code |-> 404, error |-> "Scan not found"]
  ELSE LET scanResult == scanResults[id]
       IN  [code |-> 200, scanId |-> scanResult.id, status |-> scanResult.status,
            progress |-> scanResult.progress, startTime |-> scanResult.startTime,
            endTime |-> scanResult.endTime]

GetStatus(id) ==
  /\ ~Running
  /\ UNCHANGED vars

\* GET /: the scans newest first (ids are issued in the order of the start
\* times), at most ten of them, each with its level computed on the spot.
ListEntry(scan) ==
  [id |-> scan.id, url |-> scan.url, status |-> scan.status,
   progress |-> scan.progress, startTime |-> scan.startTime,
   endTime |-> scan.endTime, riskLevel |-> calculateRiskLevel(scan.results)]

RECURSIVE RecentScans(_)
RecentScans(k) ==
  IF k = 0 THEN <<>>
  ELSE (IF scanResults[k] = NoRecord THEN <<>> ELSE <<ListEntry(scanResults[k])>>)
       \o RecentScans(k - 1)

GetListResponse ==
  LET all == RecentScans(Cardinality(DOMAIN scanResults))
  IN  [code |-> 200,
       scans |-> SubSeq(all, 1, IF Len(all) < 10 THEN Len(all) ELSE 10),
       total |-> Len(all)]

GetList ==
  /\ ~Running
  /\ UNCHANGED vars

Next ==
  \/ \E url \in Urls : Post(url)
  \/ StartScanUnknownId
  \/ \E id \in ScanIds : StartScan(id)
  \/ \E id \in ScanIds : InvokeAnalyzer(id)
  \/ \E id \in ScanIds, outcome \in Outcomes : AnalyzerSettles(id, outcome)
  \/ \E id \in ScanIds : AnalyzerNeverSettles(id)
  \/ \E id \in ScanIds : DelayElapsed(id)
  \/ \E id \in ScanIds : Finish(id)
  \/ \E id \in ScanIds : GetScan(id)
  \/ \E id \in ScanIds : GetStatus(id)
  \/ GetList

Spec == Init /\ [][Next]_vars

\* Two scans requested one after the other, the second while the first is
\* suspended at an await: their tasks share the event loop and the store.
PairIds == {1, 2}

InitPair == InitOver(PairIds) /\ NoCall

NextPair ==
  \/ \E url \in Urls : Post(url)
  \/ \E id \in PairIds : StartScan(id)
  \/ \E id \in PairIds : InvokeAnalyzer(id)
  \/ \E id \in PairIds, outcome \in Outcomes : AnalyzerSettles(id, outcome)
  \/ \E id \in PairIds : AnalyzerNeverSettles(id)
  \/ \E id \in PairIds : DelayElapsed(id)
  \/ \E id \in PairIds : Finish(id)

SpecPair == InitPair /\ [][NextPair]_vars

\* ------------------------------------------- SecurityScanner, instance variant
\* The variant whose startScan(url, domain) keeps progress and results on the
\* scanner object.  Its weights are fractions (0.2, 0.15); updateProgress uses
\* stepWeight * 100, which is the whole number written here (0.2 * 100 and
\* 0.15 * 100 are exactly 20 and 15 in IEEE doubles).  The entries of its steps
\* array are taken as callables that resolve or reject, like the analyzers of
\* the static variant.
scoreWeights ==
  [ssl |-> 20, headers |-> 20, tech |-> 15, malware |-> 15, ports |-> 15, whois |-> 15]

\* the steps array of startScan, in order
instanceSteps == << "ssl", "headers", "tech", "malware", "ports", "whois" >>

RECURSIVE SumScoreWeights(_)
SumScoreWeights(k) ==
  IF k = 0 THEN 0 ELSE SumScoreWeights(k - 1) + scoreWeights[instanceSteps[k]]

\* What the analyzers defined next to the instance variant resolve with; the
\* SSL analyzer is the shared one.
MockResult(name) ==
  CASE name = "ssl" -> FullResult("ssl")
    [] name = "headers" ->
         [score |-> 95,
          recommendations |-> << [message |-> "Add X-Frame-Options header to prevent clickjacking",
                                  priority |-> "medium"] >>]
    [] name = "tech" ->
         [score |-> 90,
          recommendations |-> << [message |-> "Keep Nginx updated to the latest stable release",
                                  priority |-> "low"] >>]
    [] name = "malware" -> [malicious |-> FALSE, score |-> 100, recommendations |-> <<>>]
    [] name = "ports" ->
         [openPorts |-> <<80, 443>>, score |-> 85,
          recommendations |-> << [message |-> "Close unused ports to reduce attack surface",
                                  priority |-> "high"] >>]
    [] name = "whois" ->
         [score |-> 80,
          recommendations |-> << [message |-> "Enable WHOIS privacy to protect owner info",
                                  priority |-> "medium"] >>]

\* line 100: what the catch of the step loop stores
CaughtResult == [error |-> "analysis failed", score |-> 0, recommendations |-> <<>>]

Min(a, b) == IF a <= b THEN a ELSE b

\* updateProgress(step): the new value of this.progress
updateProgress(progress, step) ==
  Min(100, progress + (IF step \in DOMAIN scoreWeights THEN scoreWeights[step] ELSE 0))

\* Object.values(this.results): keys are kept in insertion order, and every
\* call inserts them in the order of the steps array.
RECURSIVE ResultValues(_, _)
ResultValues(results, k) ==
  IF k = 0 THEN <<>>
  ELSE ResultValues(results, k - 1)
       \o (IF instanceSteps[k] \in DOMAIN results THEN <<results[instanceSteps[k]]>> ELSE <<>>)

\* calculateOverallRisk, in hundredths of a point
calculateOverallRisk(results) ==
  LET scoreOf(step) ==
        IF step \in DOMAIN results THEN FieldOr(results[step], "score", 0) ELSE 0
      RECURSIVE total(_)
      total(k) ==
        IF k = 0 THEN 0
        ELSE total(k - 1) + scoreOf(instanceSteps[k]) * scoreWeights[instanceSteps[k]]
      totalWeight100 == SumScoreWeights(Len(instanceSteps))
  IN  IF totalWeight100 > 0 THEN (100 * total(Len(instanceSteps))) \div totalWeight100 ELSE 0

\* String.prototype.toLowerCase on the priority words and the domain names
ToLowerCase(p) ==
  CASE p \in {"Critical", "CRITICAL"} -> "critical"
    [] p \in {"High", "HIGH"} -> "high"
    [] p \in {"Medium", "MEDIUM"} -> "medium"
    [] p \in {"Low", "LOW"} -> "low"
    [] p = "Example.com" -> "example.com"
    [] OTHER -> p

\* PriorityRank with the fallback -1 in place of 99.
PriorityRank_unrankedFirst(rec) ==
  IF "priority" \in DOMAIN rec /\ ToLowerCase(rec.priority) \in {"critical", "high", "medium", "low"}
  THEN priorityOrder(ToLowerCase(rec.priority))
  ELSE -1

\* priorityOrder[a.priority?.toLowerCase()] ?? 99
PriorityRank(rec) ==
  IF "priority" \in DOMAIN rec /\ ToLowerCase(rec.priority) \in {"critical", "high", "medium", "low"}
  THEN priorityOrder(ToLowerCase(rec.priority))
  ELSE 99

RECURSIVE InsertByRank(_, _)
InsertByRank(sorted, r) ==
  IF sorted = <<>> THEN <<r>>
  ELSE IF PriorityRank(Head(sorted)) <= PriorityRank(r)
       THEN <<Head(sorted)>> \o InsertByRank(Tail(sorted), r)
       ELSE <<r>> \o sorted

RECURSIVE SortByRank(_)
SortByRank(recs) ==
  IF recs = <<>> THEN <<>>
  ELSE InsertByRank(SortByRank(SubSeq(recs, 1, Len(recs) - 1)), recs[Len(recs)])

RECURSIVE ConcatRecommendations(_)
ConcatRecommendations(values) ==
  IF values = <<>> THEN <<>>
  ELSE FieldOr(Head(values), "recommendations", <<>>) \o ConcatRecommendations(Tail(values))

compileRecommendations(results) ==
  SortByRank(ConcatRecommendations(ResultValues(results, Len(instanceSteps))))

SetKey(results, key, value) ==
  [k \in DOMAIN results \cup {key} |-> IF k = key THEN value ELSE results[k]]

\* startScan is called; the steps array is built and the first analyzer is
\* invoked and awaited (line 96).
IStartScan(c) ==
  /\ iPc[c] = "none"
  /\ \A d \in Calls : d < c => iPc[d] # "none"
  /\ iPc' = [iPc EXCEPT ![c] = "await"]
  /\ iStep' = [iStep EXCEPT ![c] = 1]
  /\ UNCHANGED << iProgress, iResults, iReturn, iFaults >>
  /\ UNCHANGED << scanVars, callVars >>

\* lines 96-101: the awaited analyzer settles.  A result is stored and the
\* progress updated; a rejection is caught and a zero-score entry stored; a
\* rejection with null or undefined makes the catch itself throw at
\* error.message, and startScan rejects.  The loop then invokes the next
\* analyzer, or leaves the loop.
ISettles(c, outcome) ==
  LET name == instanceSteps[iStep[c]]
      next == IF iStep[c] < Len(instanceSteps) THEN "await" ELSE "finish"
  IN
  /\ iPc[c] = "await"
  /\ outcome # "ok" => iFaults < MaxFaults
  /\ iFaults' = IF outcome = "ok" THEN iFaults ELSE iFaults + 1
  /\ CASE outcome \in {"ok", "degraded"} ->
            /\ iResults' = SetKey(iResults, name,
                                  IF outcome = "ok" THEN MockResult(name) ELSE ErrorResult(name))
            /\ iProgress' = updateProgress(iProgress, name)
            /\ iPc' = [iPc EXCEPT ![c] = next]
            /\ iStep' = [iStep EXCEPT ![c] = IF next = "await" THEN @ + 1 ELSE @]
       [] outcome = "throw" ->
            /\ iResults' = SetKey(iResults, name, CaughtResult)
            /\ iPc' = [iPc EXCEPT ![c] = next]
            /\ iStep' = [iStep EXCEPT ![c] = IF next = "await" THEN @ + 1 ELSE @]
            /\ UNCHANGED iProgress
       [] outcome = "rejectNull" ->
            /\ iPc' = [iPc EXCEPT ![c] = "rejected"]
            /\ UNCHANGED << iResults, iProgress, iStep >>
  /\ UNCHANGED iReturn
  /\ UNCHANGED << scanVars, callVars >>

\* lines 104-112
IFinish(c) ==
  /\ iPc[c] = "finish"
  /\ iReturn' = [iReturn EXCEPT ![c] =
                   [results |-> iResults,
                    overallRisk100 |-> calculateOverallRisk(iResults),
                    recommendations |-> compileRecommendations(iResults),
                    progress |-> iProgress]]
  /\ iPc' = [iPc EXCEPT ![c] = "returned"]
  /\ UNCHANGED << iProgress, iResults, iStep, iFaults >>
  /\ UNCHANGED << scanVars, callVars >>

NextInstance ==
  \/ \E c \in Calls : IStartScan(c)
  \/ \E c \in Calls, outcome \in Outcomes : ISettles(c, outcome)
  \/ \E c \in Calls : IFinish(c)

SpecInstance == Init /\ [][NextInstance]_vars

\* ------------------------------------------------- functions on their own
\* The value a call returned.
Returned(v) == [value |-> v]

\* getRiskLevel called with a score of the aggregator's range.
ScoreRange == 0..100

InitRiskLevel == InitOver(ScanIds) /\ arg \in ScoreRange /\ ret = Null

CallGetRiskLevel ==
  /\ ret = Null
  /\ ret' = Returned(getRiskLevel(arg))
  /\ UNCHANGED << scanVars, instVars, arg >>

NextRiskLevel == CallGetRiskLevel

SpecRiskLevel == InitRiskLevel /\ [][NextRiskLevel]_vars

\* The sort of the recommendations called with a list of up to MaxRecs
\* recommendations, each with one of the four priorities, with a priority
\* the table does not know, or with none; message stands for the text, which
\* differs from one recommendation to the next.
MaxRecs == 4

PriorityChoices == {"critical", "high", "medium", "low", "urgent", "(none)"}

Recommendation(i, choice) ==
  IF choice = "(none)" THEN [message |-> i]
  ELSE [message |-> i, priority |-> choice]

InitSort ==
  /\ InitOver(ScanIds)
  /\ \E n \in 0..MaxRecs : \E choice \in [1..n -> PriorityChoices] :
       arg = [i \in 1..n |-> Recommendation(i, choice[i])]
  /\ ret = Null

\* compileRecommendations: its sort
CallCompileSort ==
  /\ ret = Null
  /\ ret' = Returned(SortByRank(arg))
  /\ UNCHANGED << scanVars, instVars, arg >>

\* generateRecommendations: its sort, on recommendations as it builds them
\* (every one with a priority of its table)
CallGenerateSort ==
  /\ ret = Null
  /\ \A i \in 1..Len(arg) :
       "priority" \in DOMAIN arg[i]
         /\ arg[i].priority \in {"critical", "high", "medium", "low"}
  /\ ret' = Returned(SortByPriority(arg))
  /\ UNCHANGED << scanVars, instVars, arg >>

NextSort == CallCompileSort \/ CallGenerateSort

SpecSort == InitSort /\ [][NextSort]_vars

\* The read routes called on a store that holds one scan, taken at any of
\* the points where its task is suspended or has ended: after k settled
\* steps, each of which stored a full result, stored an error result or was
\* caught, then still running, completed, or failed by a rejection with null.
StepOutcomes == {"ok", "degraded", "throw"}

RECURSIVE RecordAfter(_, _, _)
RecordAfter(url, outcomes, k) ==
  IF k = 0 THEN BeginScan(NewScanResult(1, url))
  ELSE LET rec == RecordAfter(url, outcomes, k - 1)
           step == scanSteps[k]
           cw == SumWeights(scanSteps, k)
       IN  CASE outcomes[k] = "ok" -> StoreResult(rec, step, FullResult(step.name), cw)
             [] outcomes[k] = "degraded" -> StoreResult(rec, step, ErrorResult(step.name), cw)
             [] outcomes[k] = "throw" -> RecordStepError(rec, step, cw)

InitRead ==
  /\ \E url \in {u \in Urls : ~PostRejects(u)}, k \in 0..NumSteps :
       \E outcomes \in [1..k -> StepOutcomes],
          ending \in {"running", "completed", "failed"} :
         LET rec == RecordAfter(url, outcomes, k)
             last == IF k < NumSteps /\ (k = 0 \/ ending = "failed") THEN k + 1 ELSE k
         IN  /\ ending = "completed" => k = NumSteps
             /\ ending = "failed" => k < NumSteps
             /\ scanResults =
                  [id \in ScanIds |->
                     IF id # 1 THEN NoRecord
                     ELSE IF ending = "completed" THEN CompleteScan(rec)
                     ELSE IF ending = "failed" THEN FailScan(rec)
                     ELSE rec]
             /\ pc = [id \in ScanIds |->
                        IF id # 1 THEN "none"
                        ELSE IF ending # "running" THEN "done"
                        ELSE IF k = 0 THEN "await" ELSE "delay"]
             /\ stepIdx = [id \in ScanIds |-> IF id = 1 THEN last ELSE 0]
             /\ completedWeight =
                  [id \in ScanIds |-> IF id = 1 THEN SumWeights(scanSteps, k) ELSE 0]
             /\ invoked =
                  [id \in ScanIds |->
                     IF id = 1 THEN [i \in 1..last |-> scanSteps[i].name] ELSE <<>>]
             /\ failedLog = IF ending = "failed" THEN {1} ELSE {}
             /\ faults = Cardinality({i \in 1..k : outcomes[i] # "ok"})
                         + (IF ending = "failed" THEN 1 ELSE 0)
  /\ nextId = 2
  /\ InitScanner
  /\ NoCall

\* ReadScan that appends the recommendations it computes to the record.
ReadScan_storesRecommendations(id) ==
  /\ ~Running
  /\ arg' = [route |-> "GET /:scanId", scanId |-> id]
  /\ ret' = Returned(GetScanResponse(id))
  /\ scanResults' =
       [scanResults EXCEPT
          ![id] = IF @ = NoRecord THEN @
                  ELSE [@ EXCEPT !.results.recommendations =
                                   @ \o generateRecommendations(scanResults[id].results)]]
  /\ UNCHANGED << pc, stepIdx, completedWeight, invoked, failedLog, faults, nextId >>
  /\ UNCHANGED instVars

\* GET /:scanId with its response.
ReadScan(id) ==
  /\ ~Running
  /\ arg' = [route |-> "GET /:scanId", scanId |-> id]
  /\ ret' = Returned(GetScanResponse(id))
  /\ UNCHANGED << scanVars, instVars >>

\* GET /:scanId/status with its response.
ReadStatus(id) ==
  /\ ~Running
  /\ arg' = [route |-> "GET /:scanId/status", scanId |-> id]
  /\ ret' = Returned(GetStatusResponse(id))
  /\ UNCHANGED << scanVars, instVars >>

\* GET / with its response.
ReadList ==
  /\ ~Running
  /\ arg' = [route |-> "GET /"]
  /\ ret' = Returned(GetListResponse)
  /\ UNCHANGED << scanVars, instVars >>

NextRead ==
  \/ \E id \in ScanIds : ReadScan(id)
  \/ \E id \in ScanIds : ReadStatus(id)
  \/ ReadList

SpecRead == InitRead /\ [][NextRead]_vars

\* The aggregators called with a results object: each dimension without a
\* result (as the record starts, or after its analyzer threw), with its full
\* result or with its analyzer's error result; riskScore not yet stored, or
\* stored.
ResultsObjects ==
  [malware : {Null, FullResult("malware"), ErrorResult("malware")},
   ssl : {Null, FullResult("ssl"), ErrorResult("ssl")},
   headers : {Null, FullResult("headers"), ErrorResult("headers")},
   tech : {Null, FullResult("tech"), ErrorResult("tech")},
   ports : {Null, FullResult("ports"), ErrorResult("ports")},
   whois : {Null, FullResult("whois"), ErrorResult("whois")},
   riskScore : {Null, [num |-> 0]},
   recommendations : {<<>>}]

InitAggregate == InitOver(ScanIds) /\ arg \in ResultsObjects /\ ret = Null

CallCalculateRiskScore ==
  /\ ret = Null
  /\ ret' = Returned([riskScore |-> calculateRiskScore(arg)])
  /\ UNCHANGED << scanVars, instVars, arg >>

CallCalculateRiskLevel ==
  /\ ret = Null
  /\ ret' = Returned([riskLevel |-> calculateRiskLevel(arg)])
  /\ UNCHANGED << scanVars, instVars, arg >>

NextAggregate == CallCalculateRiskScore \/ CallCalculateRiskLevel

SpecAggregate == InitAggregate /\ [][NextAggregate]_vars

\* generateSummary called with a results object: per dimension no result, or
\* a result with the field the summary reads at either side of each
\* threshold, or without that field.
SummaryInputs ==
  [ssl : {Null, [grade |-> "A+"], [grade |-> "A"], [grade |-> "B"], [grade |-> "F"],
          [error |-> TRUE]},
   headers : {Null, [score |-> 0], [score |-> 59], [score |-> 60], [score |-> 79],
              [score |-> 80], [score |-> 100], [error |-> "failed"]},
   malware : {Null, [malicious |-> 0, total |-> 70], [malicious |-> 3, total |-> 70],
              [error |-> "failed"]},
   ports : {Null, [openPorts |-> <<>>], [openPorts |-> <<443>>],
            [openPorts |-> <<80, 443>>], [openPorts |-> <<21, 23>>],
            [error |-> "failed"]}]

InitSummary == InitOver(ScanIds) /\ arg \in SummaryInputs /\ ret = Null

CallGenerateSummary ==
  /\ ret = Null
  /\ ret' = Returned(generateSummary(arg))
  /\ UNCHANGED << scanVars, instVars, arg >>

NextSummary == CallGenerateSummary

SpecSummary == InitSummary /\ [][NextSummary]_vars

\* ------------------------------------------------- analyzers on their own
\* The analyzer classes of the repository.  SSLAnalyzer, PortAnalyzer and
\* WhoisAnalyzer come as a live class and as a class that synthesizes its
\* result from the domain name; TechAnalyzer comes in two live versions.
Analyzers ==
  { "SSLAnalyzer", "SSLAnalyzer (mock)", "PortAnalyzer", "PortAnalyzer (mock)",
    "HeadersAnalyzer", "TechAnalyzer", "TechAnalyzer (offline-safe)",
    "WhoisAnalyzer", "WhoisAnalyzer (mock)" }

\* error.message of what was thrown inside analyze
ErrorMessages ==
  { "getaddrinfo ENOTFOUND", "socket hang up",
    "Cannot read properties of undefined (reading 'toLowerCase')" }

\* SSLAnalyzer (mock): generateErrorResponse(msg)
generateErrorResponse(msg) == [error |-> TRUE, message |-> msg]

\* What analyze returns from its catch block.
ErrorResponse(analyzer, message) ==
  CASE analyzer = "SSLAnalyzer" ->
         [grade |-> "F", error |-> message, protocols |-> <<>>, ciphers |-> <<>>,
          certificate |-> Null, vulnerabilities |-> <<"SSL analysis failed">>,
          recommendations |-> <<StrRec("Check SSL configuration")>>, score |-> 0]
    [] analyzer = "SSLAnalyzer (mock)" -> generateErrorResponse(message)
    [] analyzer = "PortAnalyzer" ->
         [error |-> message, openPorts |-> <<>>, closedPorts |-> <<>>,
          riskyPorts |-> <<>>, score |-> 0,
          recommendations |-> <<StrRec("Check network connectivity")>>]
    [] analyzer = "PortAnalyzer (mock)" ->
         [error |-> message, openPorts |-> <<>>, closedPorts |-> <<>>,
          riskyPorts |-> <<>>, score |-> 0,
          recommendations |->
            <<StrRec("Unable to perform port scan - check network connectivity")>>]
    [] analyzer = "HeadersAnalyzer" ->
         [score |-> 0, error |-> message, missingHeaders |-> getRequiredHeaders,
          presentHeaders |-> <<>>,
          recommendations |-> <<StrRec("Check server configuration")>>]
    [] analyzer = "TechAnalyzer" ->
         [error |-> message, technologies |-> <<>>, score |-> 0,
          recommendations |-> <<StrRec("Check website accessibility")>>]
    [] analyzer = "TechAnalyzer (offline-safe)" ->
         [technologies |-> <<>>, score |-> 0, error |-> message,
          recommendations |-> <<StrRec("Check website accessibility")>>]
    [] analyzer = "WhoisAnalyzer" ->
         [error |-> message, registrar |-> Null, domainAge |-> Null, score |-> 0,
          recommendations |-> <<StrRec("Check domain registration status")>>]
    [] analyzer = "WhoisAnalyzer (mock)" ->
         [error |-> message, registrar |-> Null, domainAge |-> Null, score |-> 0,
          recommendations |->
            <<StrRec("Unable to retrieve domain information - verify domain exists")>>]

\* SSLAnalyzer (mock): calculateGrade
calculateGrade(score) ==
  IF score >= 90 THEN "A+"
  ELSE IF score >= 80 THEN "A"
  ELSE IF score >= 70 THEN "B"
  ELSE IF score >= 60 THEN "C"
  ELSE IF score >= 40 THEN "D"
  ELSE "F"

\* SSLAnalyzer (live): calculateGrade
calculateGradeLive(score) ==
  IF score >= 90 THEN "A+"
  ELSE IF score >= 80 THEN "A"
  ELSE IF score >= 70 THEN "B"
  ELSE IF score >= 60 THEN "C"
  ELSE IF score >= 50 THEN "D"
  ELSE IF score >= 40 THEN "E"
  ELSE "F"

\* calculateGrade of either class called with a score.
InitGrade == InitOver(ScanIds) /\ arg \in ScoreRange /\ ret = Null

CallCalculateGrade ==
  /\ ret = Null
  /\ ret' = Returned(calculateGrade(arg))
  /\ UNCHANGED << scanVars, instVars, arg >>

CallCalculateGradeLive ==
  /\ ret = Null
  /\ ret' = Returned(calculateGradeLive(arg))
  /\ UNCHANGED << scanVars, instVars, arg >>

NextGrade == CallCalculateGrade \/ CallCalculateGradeLive

SpecGrade == InitGrade /\ [][NextGrade]_vars

\* ---- POST /api/scan with the request and its response kept: arg is the url
\* of the request body, ret the response sent.  The scans run on as in Spec.
InitRequest == InitOver(ScanIds) /\ arg \in Urls /\ ret = Null

PostRequest ==
  /\ ~Running
  /\ ret = Null
  /\ ret' = Returned(PostResponse(arg, nextId))
  /\ IF PostRejects(arg)
     THEN UNCHANGED scanVars
     ELSE /\ nextId \in DOMAIN scanResults
          /\ scanResults' = [scanResults EXCEPT ![nextId] = NewScanResult(nextId, arg)]
          /\ pc' = [pc EXCEPT ![nextId] = "start"]
          /\ nextId' = nextId + 1
          /\ UNCHANGED << stepIdx, completedWeight, invoked, failedLog, faults >>
  /\ UNCHANGED << instVars, arg >>

NextRequest ==
  \/ PostRequest
  \/ \E id \in ScanIds : StartScan(id)
  \/ \E id \in ScanIds : InvokeAnalyzer(id)
  \/ \E id \in ScanIds, outcome \in Outcomes : AnalyzerSettles(id, outcome)
  \/ \E id \in ScanIds : AnalyzerNeverSettles(id)
  \/ \E id \in ScanIds : DelayElapsed(id)
  \/ \E id \in ScanIds : Finish(id)

SpecRequest == InitRequest /\ [][NextRequest]_vars

\* ---- ScanProgress (client component) polling GET /:scanId/status while
\* the scan runs.  arg is the scanId prop, ret the state of the component
\* after its latest poll (Null before the first response).
ClientScanSteps == << "malware", "ssl", "headers", "tech", "ports", "whois" >>

PolledIds == {1}

\* useState(0), useState('pending'), useState(''), useState(null)
Component ==
  IF ret = Null
  THEN [progress |-> 0, status |-> "pending", currentStep |-> "", error |-> FALSE]
  ELSE ret.value

\* getStepStatus with a strict comparison
getStepStatus_strict(state, stepName) ==
  LET \* scanSteps.findIndex(step => step.name === stepName), from 0
      stepIndex ==
        CHOOSE i \in 0..(Len(ClientScanSteps) - 1) : ClientScanSteps[i + 1] = stepName
  IN  IF state.progress * Len(ClientScanSteps) > (stepIndex + 1) * 100 THEN "completed"
      ELSE IF state.currentStep = stepName THEN "active"
      ELSE "pending"

\* getStepStatus: progress >= (stepIndex + 1) * (100 / scanSteps.length).
\* progress is an integer; the doubles (stepIndex + 1) * (100 / 6) are 50 and
\* 100 exactly and lie less than 1e-13 above the quotient otherwise, so the
\* comparison is the one of the integers below.
getStepStatus(state, stepName) ==
  LET \* scanSteps.findIndex(step => step.name === stepName), from 0
      stepIndex ==
        CHOOSE i \in 0..(Len(ClientScanSteps) - 1) : ClientScanSteps[i + 1] = stepName
  IN  IF state.progress * Len(ClientScanSteps) >= (stepIndex + 1) * 100 THEN "completed"
      ELSE IF state.currentStep = stepName THEN "active"
      ELSE "pending"

\* pollProgress: one request and what its callback sets
PollProgress ==
  /\ ~Running
  /\ ~Component.error
  /\ Component.status \in {"pending", "scanning"}
  /\ LET response == GetStatusResponse(arg)
         \* Math.floor((currentProgress / 100) * scanSteps.length)
         stepIndex == (response.progress * Len(ClientScanSteps)) \div 100
     IN  ret' = Returned(
           IF response.code # 200
           THEN [Component EXCEPT !.error = TRUE]
           ELSE [progress |-> response.progress,
                 status |-> response.status,
                 currentStep |-> IF stepIndex < Len(ClientScanSteps)
                                 THEN ClientScanSteps[stepIndex + 1]
                                 ELSE Component.currentStep,
                 error |-> FALSE])
  /\ UNCHANGED << scanVars, instVars, arg >>

InitProgress == InitOver(PolledIds) /\ arg \in PolledIds /\ ret = Null

NextProgress ==
  \/ PollProgress
  \/ \E url \in Urls : Post(url)
  \/ \E id \in PolledIds : StartScan(id)
  \/ \E id \in PolledIds : InvokeAnalyzer(id)
  \/ \E id \in PolledIds, outcome \in Outcomes : AnalyzerSettles(id, outcome)
  \/ \E id \in PolledIds : AnalyzerNeverSettles(id)
  \/ \E id \in PolledIds : DelayElapsed(id)
  \/ \E id \in PolledIds : Finish(id)

SpecProgress == InitProgress /\ [][NextProgress]_vars

\* ---- ScanResults (client component): what it renders for its scanData prop
SectionNames == {"ssl", "headers", "malware", "ports", "tech", "whois", "firewall",
                 "antivirus"}

\* scanData: null, a map of sections (the empty object among them), or an
\* object holding such a map under results
ScanDataInputs ==
  LET \* one analysis section with a status and details
      data(name) == [status |-> "secure", details |-> [note |-> name]]
  IN  {Null}
      \cup {[name \in present |-> data(name)] : present \in SUBSET SectionNames}
      \cup {[results |-> [name \in present |-> data(name)]] :
              present \in SUBSET SectionNames}

\* the six calls of renderAnalysisSection, in the order of the grid
RenderedSections == << "ssl", "headers", "malware", "ports", "tech", "whois" >>

\* renderAnalysisSection(title, data, icon): null without data, else the card
\* with the details block when details has keys
renderAnalysisSection(results, name) ==
  IF name \notin DOMAIN results THEN <<>>
  ELSE LET data == results[name]
           details == IF "details" \in DOMAIN data THEN data.details ELSE <<>>
       IN  << [section |-> name, details |-> DOMAIN details # {}] >>

\* ScanResults({ scanData }): the cards rendered (none when it returns null)
ScanResults(scanData) ==
  IF scanData = Null \/ "results" \notin DOMAIN scanData THEN <<>>
  ELSE LET grid[k \in 0..Len(RenderedSections)] ==
             IF k = 0 THEN <<>>
             ELSE grid[k - 1]
                  \o renderAnalysisSection(scanData.results, RenderedSections[k])
       IN  grid[Len(RenderedSections)]

InitRender == InitOver(ScanIds) /\ arg \in ScanDataInputs /\ ret = Null

CallScanResults ==
  /\ ret = Null
  /\ ret' = Returned(ScanResults(arg))
  /\ UNCHANGED << scanVars, instVars, arg >>

NextRender == CallScanResults

SpecRender == InitRender /\ [][NextRender]_vars

\* ---- WhoisAnalyzer (mock): the result synthesized from the domain name.
\* md5 and Math.sin are library functions: each is one fixed function of its
\* argument.  The model draws them once, md5 (its first eight hex digits read
\* as a number) from the functions on the lower-case names, Math.sin (the
\* fractional part of sin(n) * 10000, in tenths) from a family of functions
\* that are 0 at 0.
MaxSynth == 3

Domains == {"example.com", "Example.com", "test-site.org"}

Md5Functions == [{ToLowerCase(d) : d \in Domains} -> {0, 3, 8}]

SinFunctions == {3, 7}

\* the calls made so far
Synthesized == IF ret = Null THEN <<>> ELSE ret.value

\* seededRandom that advances with every call made, as Math.random does
seededRandom_advancing(sin, n) == (sin * n * n + 7 * n + Len(Synthesized)) % 10

\* seededRandom(seed): x = Math.sin(seed) * 10000; x - Math.floor(x)
seededRandom(sin, n) == (sin * n * n + 7 * n) % 10

calculateWhoisScore(status, nameServers, domainAge, daysUntilExpiry) ==
  LET age ==
        IF domainAge = 0 THEN 0
        ELSE IF domainAge > 3650 THEN 25
        ELSE IF domainAge > 1825 THEN 20
        ELSE IF domainAge > 730 THEN 15
        ELSE IF domainAge > 365 THEN 10
        ELSE IF domainAge > 180 THEN 5
        ELSE IF domainAge < 30 THEN -25
        ELSE IF domainAge < 90 THEN -15
        ELSE 0
      expiry ==
        IF daysUntilExpiry = 0 THEN 0
        ELSE IF daysUntilExpiry < 30 THEN -35
        ELSE IF daysUntilExpiry < 90 THEN -20
        ELSE IF daysUntilExpiry < 180 THEN -10
        ELSE IF daysUntilExpiry > 730 THEN 15
        ELSE IF daysUntilExpiry > 365 THEN 10
        ELSE 0
      good == {"ok", "active", "clientTransferProhibited", "clientUpdateProhibited",
               "clientDeleteProhibited"}
      statuses == 3 * SelectSeqCount(status, good)
      servers ==
        IF nameServers >= 3 THEN 10
        ELSE IF nameServers >= 2 THEN 5
        ELSE IF nameServers = 1 THEN -5
        ELSE -15
      score == 50 + age + expiry + statuses + servers
  IN  Max(0, IF score > 100 THEN 100 ELSE score)

\* WhoisAnalyzer.generateRealisticMockData(domain)
generateRealisticMockData(md5, sin, domain) ==
  LET \* parseInt(domainHash.substring(0, 8), 16)
      seed == md5[ToLowerCase(domain)]
      r(k) == seededRandom(sin, seed * k)
      registrar == (r(1) * 12) \div 10
      young == domain \in {"test-site.org"}
      ageDays == Max(1, IF young THEN (3 * r(2) * 7300) \div 100
                                 ELSE (r(2) * 7300) \div 10)
      expirationYears == 1 + (r(3) * 9) \div 10
      statusOptions ==
        << << "clientTransferProhibited", "clientUpdateProhibited",
              "clientDeleteProhibited" >>,
           << "ok" >>,
           << "clientTransferProhibited", "serverTransferProhibited" >>,
           << "clientUpdateProhibited", "serverUpdateProhibited" >>,
           << "active" >> >>
      status == statusOptions[(r(5) * 5) \div 10 + 1]
      nameServers ==
        IF r(6) > 7 THEN << 3, 4, 5, 4 >>[(r(7) * 4) \div 10 + 1]
        ELSE IF registrar \in {2, 4} THEN 3 ELSE 2
  IN  [domain |-> domain, seed |-> seed, random |-> r(1), registrar |-> registrar,
       domainAge |-> ageDays, daysUntilExpiry |-> expirationYears * 365,
       status |-> status, nameServers |-> nameServers,
       score |-> calculateWhoisScore(status, nameServers, ageDays,
                                     expirationYears * 365)]

InitSynth ==
  /\ InitOver(ScanIds)
  /\ arg \in [md5 : Md5Functions, sin : SinFunctions]
  /\ ret = Null

\* one more call of the generator, for any of the domains
CallGenerate(domain) ==
  /\ Len(Synthesized) < MaxSynth
  /\ ret' = Returned(Append(Synthesized,
                             generateRealisticMockData(arg.md5, arg.sin, domain)))
  /\ UNCHANGED << scanVars, instVars, arg >>

NextSynth == \E domain \in Domains : CallGenerate(domain)

SpecSynth == InitSynth /\ [][NextSynth]_vars

\* analyze called for a domain while something inside it throws
\* ---- SSLAnalyzer (live), normal path: what the probes of the host found
Protocols == {"TLSv1.3", "TLSv1.2", "TLSv1.1", "TLSv1.0", "SSLv3"}

\* certificate: none, or one with daysUntilExpiry below or above 30;
\* cipher: none negotiated, one of the weak list, a GCM/CHACHA20 one, another
SslInputs ==
  { [analyzer |-> "SSLAnalyzer", hasHttps |-> FALSE, certificate |-> "none",
     protocols |-> {}, cipher |-> "none"] }
  \cup [analyzer : {"SSLAnalyzer"}, hasHttps : {TRUE},
        certificate : {"none", "expiring", "valid"},
        protocols : SUBSET Protocols,
        cipher : {"none", "weak", "other", "strong"}]

calculateProtocolScore(protocols) ==
  Max(0, (IF "TLSv1.3" \in protocols THEN 40 ELSE 0)
         + (IF "TLSv1.2" \in protocols THEN 30 ELSE 0)
         + (IF "TLSv1.1" \in protocols THEN 10 ELSE 0)
         + (IF "TLSv1.0" \in protocols THEN 5 ELSE 0)
         - (IF "SSLv3" \in protocols THEN 20 ELSE 0))

calculateCipherScore(cipher) ==
  IF cipher = "none" THEN 0
  ELSE IF cipher = "strong" THEN 30
  ELSE 15

checkVulnerabilities(protocols, cipher, certificate) ==
  (IF "SSLv3" \in protocols THEN <<"SSLv3 is vulnerable to POODLE attack">> ELSE <<>>)
  \o (IF "TLSv1.0" \in protocols THEN <<"TLSv1.0 is considered weak">> ELSE <<>>)
  \o (IF "TLSv1.1" \in protocols THEN <<"TLSv1.1 is considered weak">> ELSE <<>>)
  \o (IF certificate = "expiring" THEN <<"Certificate expires soon">> ELSE <<>>)
  \o (IF cipher = "weak" THEN <<"Weak cipher suites detected">> ELSE <<>>)

SslRecommendations(protocols, vulnerabilities, certificate) ==
  (IF "TLSv1.3" \notin protocols
   THEN <<StrRec("Enable TLS 1.3 for better security and performance")>> ELSE <<>>)
  \o (IF protocols \cap {"SSLv3", "TLSv1.0", "TLSv1.1"} # {}
      THEN <<StrRec("Disable SSLv3, TLS 1.0, and TLS 1.1")>> ELSE <<>>)
  \o (IF certificate = "expiring"
      THEN <<StrRec("Renew SSL certificate before expiration")>> ELSE <<>>)
  \o (IF Len(vulnerabilities) > 0
      THEN <<StrRec("Address identified vulnerabilities")>> ELSE <<>>)

\* SSLAnalyzer.analyze, lines 10-63
SslResult(input) ==
  IF ~input.hasHttps
  THEN [grade |-> "F", protocols |-> {}, cipher |-> "none", certificate |-> "none",
        vulnerabilities |-> <<>>,
        recommendations |-> <<StrRec("Enable HTTPS for this domain")>>, score |-> 0]
  ELSE LET vulnerabilities ==
             checkVulnerabilities(input.protocols, input.cipher, input.certificate)
           score == (IF input.certificate = "none" THEN 0 ELSE 20)
                    + calculateProtocolScore(input.protocols)
                    + calculateCipherScore(input.cipher)
                    - Len(vulnerabilities) * 10
       IN  [grade |-> calculateGradeLive(score), protocols |-> input.protocols,
            cipher |-> input.cipher, certificate |-> input.certificate,
            vulnerabilities |-> vulnerabilities,
            recommendations |->
              SslRecommendations(input.protocols, vulnerabilities, input.certificate),
            score |-> score]

\* ---- HeadersAnalyzer, normal path: whether a response was received over
\* https or http, and which of the required headers it carried (each with
\* its best-practice value)
HeadersInputs ==
  { [analyzer |-> "HeadersAnalyzer", retrieved |-> FALSE, present |-> {}] }
  \cup [analyzer : {"HeadersAnalyzer"}, retrieved : {TRUE},
        present : SUBSET {getRequiredHeaders[i] : i \in DOMAIN getRequiredHeaders}]

\* analyzeSpecificHeader for the best-practice value of the header
HeaderScore(header) ==
  CASE header = "Content-Security-Policy" -> 35
    [] header = "X-Frame-Options" -> 20
    [] header = "X-Content-Type-Options" -> 15
    [] header = "Strict-Transport-Security" -> 25
    [] header = "X-XSS-Protection" -> 10
    [] header = "Referrer-Policy" -> 10
    [] header = "Permissions-Policy" -> 10

\* HeadersAnalyzer.generateRecommendations: the switch over a missing header
HeaderRecommendation(header) ==
  CASE header = "Content-Security-Policy" ->
         "Add Content-Security-Policy header to prevent XSS attacks"
    [] header = "X-Frame-Options" ->
         "Add X-Frame-Options header to prevent clickjacking"
    [] header = "X-Content-Type-Options" ->
         "Add X-Content-Type-Options: nosniff to prevent MIME sniffing"
    [] header = "Strict-Transport-Security" ->
         "Add Strict-Transport-Security header to enforce HTTPS"
    [] header = "X-XSS-Protection" ->
         "Add X-XSS-Protection header for additional XSS protection"
    [] header = "Referrer-Policy" ->
         "Add Referrer-Policy header to control referrer information"
    [] header = "Permissions-Policy" ->
         "Add Permissions-Policy header to control browser features"

\* HeadersAnalyzer.analyzeHeaders
analyzeHeaders(present) ==
  LET missingHeaders == SelectSeq(getRequiredHeaders, LAMBDA h : h \notin present)
      \* analysis.score += headerAnalysis.score, over the first k required headers
      scoreSum[k \in 0..Len(getRequiredHeaders)] ==
        IF k = 0 THEN 0
        ELSE (IF getRequiredHeaders[k] \in present
              THEN HeaderScore(getRequiredHeaders[k]) ELSE 0)
             + scoreSum[k - 1]
      \* generateRecommendations(missingHeaders, details): one per missing header
      recommendations ==
        [i \in 1..Len(missingHeaders) |-> StrRec(HeaderRecommendation(missingHeaders[i]))]
  IN  [score |-> Min(100, Max(0, scoreSum[Len(getRequiredHeaders)])),
       missingHeaders |-> missingHeaders,
       recommendations |-> recommendations]

\* HeadersAnalyzer.analyze, lines 704-740
HeadersResult(input) ==
  IF ~input.retrieved
  THEN [score |-> 0, missingHeaders |-> getRequiredHeaders, presentHeaders |-> {},
        recommendations |-> <<StrRec("Enable HTTPS for better security")>>]
  ELSE LET analysis == analyzeHeaders(input.present)
       IN  [score |-> analysis.score, missingHeaders |-> analysis.missingHeaders,
            presentHeaders |-> input.present,
            recommendations |-> analysis.recommendations]

AnalyzeInputs ==
  [analyzer : Analyzers, failure : ErrorMessages] \cup SslInputs \cup HeadersInputs

\* analyze(domain): the value the returned promise resolves with
analyze(input) ==
  IF "failure" \in DOMAIN input
  THEN ErrorResponse(input.analyzer, input.failure)
  ELSE IF input.analyzer = "SSLAnalyzer" THEN SslResult(input)
  ELSE HeadersResult(input)

InitAnalyze == InitOver(ScanIds) /\ arg \in AnalyzeInputs /\ ret = Null

CallAnalyze ==
  /\ ret = Null
  /\ ret' = Returned(analyze(arg))
  /\ UNCHANGED << scanVars, instVars, arg >>

NextAnalyze == CallAnalyze

SpecAnalyze == InitAnalyze /\ [][NextAnalyze]_vars

\* ================================================================ claims
HasRecord(id) == scanResults[id] # NoRecord

HasGeneralError(rec) == \E i \in 1..Len(rec.errors) : rec.errors[i].step = "general"

\* the step of the table with this name has been recorded: its result is
\* stored, or an error entry names it
StepRecorded(rec, name) ==
  \/ rec.results[name] # Null
  \/ \E i \in 1..Len(rec.errors) : rec.errors[i].step = name

\* ------------------------------------------------------------------- C1
StatusStep(from, to) ==
  \/ from = to
  \/ from = "pending" /\ to = "scanning"
  \/ from = "scanning" /\ to \in {"completed", "failed"}

\* C1: a record is pending when it is created; its status then moves only
\* from pending to scanning and from scanning to completed or failed, so a
\* completed or failed record keeps its status; and whenever an analyzer is
\* invoked for a scan, its record is already scanning.
C1_StatusFlow ==
  [][\A id \in ScanIds :
       /\ (~HasRecord(id) /\ HasRecord(id)') => scanResults'[id].status = "pending"
       /\ (HasRecord(id) /\ HasRecord(id)') =>
            StatusStep(scanResults[id].status, scanResults'[id].status)
       /\ HasRecord(id) => HasRecord(id)'
       /\ invoked'[id] # invoked[id] =>
            (HasRecord(id) /\ scanResults[id].status = "scanning")]_vars

C1_Witness ==
  \E id \in ScanIds :
    /\ HasRecord(id)
    /\ scanResults[id].status = "completed"
    /\ pc[id] = "done"
    /\ Len(invoked[id]) = NumSteps

\* ------------------------------------------------------------------- C2
\* C2: no step of the program lowers the progress stored in a record, and a
\* record that is completed has progress 100.
C2_ProgressMonotonic ==
  [][\A id \in ScanIds :
       (HasRecord(id) /\ HasRecord(id)') =>
         /\ scanResults'[id].progress >= scanResults[id].progress
         /\ scanResults'[id].status = "completed" => scanResults'[id].progress = 100]_vars

C2_Witness ==
  \E id \in ScanIds :
    /\ HasRecord(id)
    /\ scanResults[id].status = "completed"
    /\ scanResults[id].progress = 100
    /\ Len(scanResults[id].errors) > 0

\* ------------------------------------------------------------------- C3
\* C3: whenever a request handler can run (no task holds the thread), the
\* response of GET /:scanId that reports status completed also reports
\* progress 100, an endTime, and results that carry the risk score and the
\* recommendations computed from the six stored results.
C3_CompletedSnapshot ==
  ~Running =>
    \A id \in ScanIds :
      LET r == GetScanResponse(id)
      IN  (r.code = 200 /\ r.status = "completed") =>
            /\ r.progress = 100
            /\ r.endTime # Undefined
            /\ r.results.riskScore # Null
            /\ r.results.riskScore = [num |-> calculateRiskScore(r.results)]
            /\ r.results.recommendations = generateRecommendations(r.results)

C3_Witness ==
  /\ ~Running
  /\ \E id \in ScanIds :
       /\ GetScanResponse(id).code = 200
       /\ GetScanResponse(id).status = "completed"
       /\ GetScanResponse(id).results.recommendations # <<>>

\* ------------------------------------------------------------------- C4
\* C4: a record whose status is failed has an entry with step 'general' in
\* its errors list.
C4_FailedHasGeneralError ==
  \A id \in ScanIds :
    (HasRecord(id) /\ scanResults[id].status = "failed") =>
      HasGeneralError(scanResults[id])

C4_Witness ==
  \E id \in ScanIds :
    /\ HasRecord(id)
    /\ scanResults[id].status = "failed"
    /\ id \in failedLog

\* ------------------------------------------------------------------- C5
\* C5: once startScan's outer catch has run for a scan id (an orchestration
\* error, such as the record not being found), the scan's record has status
\* failed and a general error entry, and the task has ended, so that no
\* analyzer runs afterwards.
C5_OrchestrationErrorFails ==
  \A id \in failedLog :
    /\ HasRecord(id)
    /\ scanResults[id].status = "failed"
    /\ HasGeneralError(scanResults[id])
    /\ pc[id] = "done"

\* ------------------------------------------------------------------- C6
\* the dimensions of a record that do not hold their analyzer's full result
NotFull(rec) == {d \in ResultKeys : rec.results[d] # FullResult(d)}

\* C6: a completed scan in which exactly one dimension did not get its full
\* result holds, for that dimension, a result with score 0 and error set,
\* not null.
C6_OneFailureDegraded ==
  \A id \in ScanIds :
    (HasRecord(id) /\ scanResults[id].status = "completed"
       /\ Cardinality(NotFull(scanResults[id])) = 1) =>
      \A d \in NotFull(scanResults[id]) :
        /\ scanResults[id].results[d] # Null
        /\ "error" \in DOMAIN scanResults[id].results[d]
        /\ FieldOr(scanResults[id].results[d], "score", -1) = 0

ScenarioProgress == << 20, 40, 55, 75, 90, 100 >>
TableOrder == << "malware", "ssl", "headers", "tech", "ports", "whois" >>
TableProgress == << 20, 40, 60, 75, 90, 100 >>

\* C8 as claimed (the scenario's table: SSL, Headers, Tech, Malware, Ports,
\* Whois with weights 20,20,15,20,15,10): the progress stored after the k-th
\* step of a scan is the k-th of 20, 40, 55, 75, 90, 100.
C8_ScenarioProgress ==
  \A id \in ScanIds :
    (HasRecord(id) /\ pc[id] = "delay") =>
      scanResults[id].progress = ScenarioProgress[stepIdx[id]]

\* C8 as amended: the steps run in the order Malware, SSL, Headers, Tech,
\* Ports, Whois (weights 20,20,20,15,15,10) and the progress stored after the
\* k-th step is the k-th of 20, 40, 60, 75, 90, 100, whatever the outcome of
\* the steps.
C8_TableProgress ==
  \A id \in ScanIds :
    (HasRecord(id) /\ pc[id] = "delay") =>
      /\ invoked[id] = SubSeq(TableOrder, 1, stepIdx[id])
      /\ scanSteps[stepIdx[id]].weight = << 20, 20, 20, 15, 15, 10 >>[stepIdx[id]]
      /\ scanResults[id].progress = TableProgress[stepIdx[id]]

C8_Witness ==
  \E id \in ScanIds :
    /\ HasRecord(id)
    /\ pc[id] = "delay"
    /\ stepIdx[id] = 3
    /\ scanResults[id].progress = 60

\* ------------------------------------------------------------------- C9
\* C9: the weights of the step table sum to 100 (and so do the instance
\* variant's weights, as percentages), so after every recorded step the
\* stored progress equals the cumulative weight of the steps run so far.
C9_WeightsSumTo100 ==
  /\ totalWeight = 100
  /\ SumScoreWeights(Len(instanceSteps)) = 100
  /\ \A id \in ScanIds :
       (HasRecord(id) /\ pc[id] = "delay") =>
         /\ completedWeight[id] = SumWeights(scanSteps, stepIdx[id])
         /\ scanResults[id].progress = completedWeight[id]
         /\ stepIdx[id] = NumSteps => scanResults[id].progress = 100

C9_Witness ==
  \E id \in ScanIds :
    /\ HasRecord(id)
    /\ pc[id] = "delay"
    /\ stepIdx[id] = NumSteps
    /\ completedWeight[id] = totalWeight

\* ------------------------------------------------------------------ C10
\* the analyzer invocations of a scan that have settled: the steps recorded
\* in its record, and the one whose rejection ended the scan
Settled(id) ==
  IF ~HasRecord(id) THEN 0
  ELSE Cardinality({k \in 1..NumSteps : StepRecorded(scanResults[id], TableOrder[k])})
       + (IF id \in failedLog THEN 1 ELSE 0)

\* C10: the analyzers invoked for a scan are the first n of the step table,
\* in its order and each once; all but the last invoked have been recorded
\* (result or error stored, progress at their cumulative weight) before the
\* last was invoked, so at most one is in flight; and a completed scan has
\* invoked all six.
C10_SequentialSteps ==
  \A id \in ScanIds :
    LET n == Len(invoked[id])
    IN  /\ n <= NumSteps
        /\ invoked[id] = SubSeq(TableOrder, 1, n)
        /\ n - Settled(id) \in {0, 1}
        /\ n > 0 =>
             /\ HasRecord(id)
             /\ \A k \in 1..(n - 1) : StepRecorded(scanResults[id], TableOrder[k])
             /\ scanResults[id].progress >= SumWeights(scanSteps, n - 1)
        /\ (HasRecord(id) /\ scanResults[id].status = "completed") => n = NumSteps

C10_Witness ==
  \E id \in ScanIds :
    /\ pc[id] = "await"
    /\ Len(invoked[id]) = 4
    /\ Settled(id) = 3

\* ------------------------------------------------------------------ C11
\* the task of a scan can take no further step: it has returned, or it is
\* suspended on a promise that never settles
TaskAtRest(id) == pc[id] \in {"done", "pending"}

\* C11: every started scan reaches completed or failed: whenever the task of
\* a scan is at rest, having returned or being held by an analyzer that does
\* not return, its record is completed or failed; an analyzer that does not
\* return is given up after a timeout and the next step runs.
C11_StartedScanEnds ==
  \A id \in ScanIds :
    (HasRecord(id) /\ TaskAtRest(id)) =>
      scanResults[id].status \in {"completed", "failed"}
\* ------------------------------------------------------------------ C12
\* something of scan id changes in the step
Touched(id) ==
  \/ scanResults'[id] # scanResults[id]
  \/ pc'[id] # pc[id]
  \/ stepIdx'[id] # stepIdx[id]
  \/ completedWeight'[id] # completedWeight[id]
  \/ invoked'[id] # invoked[id]

\* the record of scan id after the step is what the statement its task stands
\* at makes of its own record and its own loop state, whatever else the store
\* holds
OwnStep(id) ==
  LET rec == scanResults[id]
      new == scanResults'[id]
  IN  \/ new = rec
      \/ /\ pc[id] = "none"
         /\ \E url \in Urls : ~PostRejects(url) /\ new = NewScanResult(id, url)
      \/ /\ pc[id] = "start"
         /\ new = BeginScan(rec)
      \/ /\ pc[id] = "await"
         /\ LET step == scanSteps[stepIdx[id]]
                cw == completedWeight[id] + step.weight
            IN  \/ new = StoreResult(rec, step, FullResult(step.name), cw)
                \/ new = StoreResult(rec, step, ErrorResult(step.name), cw)
                \/ new = RecordStepError(rec, step, cw)
                \/ new = FailScan(rec)
      \/ /\ pc[id] = "finish"
         /\ new = CompleteScan(rec)

\* C12: with two scans under way together, a step of one scan's task changes
\* nothing of the other scan (record, loop position, completed weight), and
\* what it stores in its own record is computed from that record and its own
\* loop state alone; so each record goes through the values, and ends with
\* the status, progress, results and errors, of its scan run alone.
C12_OwnRecordOnly ==
  [][\A id \in PairIds :
       /\ OwnStep(id)
       /\ Touched(id) => \A other \in PairIds \ {id} : ~Touched(other)]_vars

\* the second scan has overtaken the first: both are suspended in an analyzer,
\* the first at its third step with 40 stored, the second at its fifth with 75
C12_Witness ==
  /\ pc[1] = "await" /\ stepIdx[1] = 3 /\ scanResults[1].progress = 40
  /\ pc[2] = "await" /\ stepIdx[2] = 5 /\ scanResults[2].progress = 75
\* ------------------------------------------------------------------ C13
\* over the first k steps of the table, the sum of score * weight and the sum
\* of weight of the dimensions that have a result
RECURSIVE ScoreWeightSum(_, _)
ScoreWeightSum(results, k) ==
  IF k = 0 THEN 0
  ELSE LET step == scanSteps[k]
           r == results[step.name]
       IN  (IF r = Null THEN 0 ELSE FieldOr(r, "score", 0) * step.weight)
           + ScoreWeightSum(results, k - 1)

RECURSIVE PresentWeightSum(_, _)
PresentWeightSum(results, k) ==
  IF k = 0 THEN 0
  ELSE (IF results[scanSteps[k].name] = Null THEN 0 ELSE scanSteps[k].weight)
       + PresentWeightSum(results, k - 1)

\* n is num / den rounded to an integer
IsRounded(n, num, den) == 2 * n * den - den <= 2 * num /\ 2 * num <= 2 * n * den + den

\* C13: the riskScore of a completed scan is the weight-normalized mean of
\* the scores of the dimensions that have a result (score * weight over
\* weight, to the nearest integer), the dimensions without one left out of
\* both sums.
C13_WeightNormalizedMean ==
  \A id \in ScanIds :
    (HasRecord(id) /\ scanResults[id].status = "completed") =>
      LET results == scanResults[id].results
          num == ScoreWeightSum(results, NumSteps)
          den == PresentWeightSum(results, NumSteps)
      IN  /\ results.riskScore # Null
          /\ IF den = 0 THEN results.riskScore.num = 0
             ELSE IsRounded(results.riskScore.num, num, den)
\* ------------------------------------------------------------------ C14
\* the dimensions of a record whose analyzer failed: an error entry names
\* them, or their result carries an error
FailedDims(rec) ==
  {d \in ResultKeys :
     \/ \E i \in 1..Len(rec.errors) : rec.errors[i].step = d
     \/ (rec.results[d] # Null /\ "error" \in DOMAIN rec.results[d])}

\* the results with the failed dimensions taken out
WithoutDims(results, dims) ==
  [k \in DOMAIN results |-> IF k \in dims THEN Null ELSE results[k]]

\* C14: in a completed scan with failed analyzers, each of the six dimensions
\* has an entry in results, the entry of a failed one carrying an error, and
\* the riskScore is the one computed from the dimensions that succeeded
\* alone.
C14_FailedDimsLeftOut ==
  \A id \in ScanIds :
    (HasRecord(id) /\ scanResults[id].status = "completed"
       /\ FailedDims(scanResults[id]) # {}) =>
      LET rec == scanResults[id]
      IN  /\ \A d \in ResultKeys : rec.results[d] # Null
          /\ \A d \in FailedDims(rec) :
               rec.results[d] # Null /\ "error" \in DOMAIN rec.results[d]
          /\ rec.results.riskScore # Null
          /\ rec.results.riskScore.num =
               calculateRiskScore(WithoutDims(rec.results, FailedDims(rec)))
\* ------------------------------------------------------------------ C15
\* C15: for every score from 0 to 100 the level is low from 80 up, medium
\* from 60 to 79, high from 40 to 59 and critical below 40; so 85 is low, 65
\* medium, 45 high and 20 critical.
C15_RiskLevelBands ==
  ret # Null =>
    /\ ret.value = "low" <=> arg >= 80
    /\ ret.value = "medium" <=> (arg >= 60 /\ arg < 80)
    /\ ret.value = "high" <=> (arg >= 40 /\ arg < 60)
    /\ ret.value = "critical" <=> arg < 40
    /\ arg = 85 => ret.value = "low"
    /\ arg = 65 => ret.value = "medium"
    /\ arg = 45 => ret.value = "high"
    /\ arg = 20 => ret.value = "critical"

\* the lowest score that is still low has been classified
C15_Witness == arg = 80 /\ ret = Returned("low")
\* ------------------------------------------------------------------ C16
\* C16: once the orchestrator has stored a riskScore, the riskLevel a read of
\* the scan returns is the level the thresholds 80, 60 and 40 give for that
\* riskScore.
C16_ReadLevelAgrees ==
  \A id \in ScanIds :
    (HasRecord(id) /\ scanResults[id].results.riskScore # Null) =>
      GetScanResponse(id).riskLevel =
        getRiskLevel(scanResults[id].results.riskScore.num)
\* ------------------------------------------------------------------ C17
\* none of the six dimensions has a result
NoDimension(results) == \A d \in ResultKeys : results[d] = Null

\* C17: for results in which no dimension has a result, as in a record just
\* created, the riskScore computed is 0 and the riskLevel reported is
\* 'unknown'.
C17_NoResultUnknown ==
  (ret # Null /\ NoDimension(arg)) =>
    /\ "riskScore" \in DOMAIN ret.value => ret.value.riskScore = 0
    /\ "riskLevel" \in DOMAIN ret.value => ret.value.riskLevel = "unknown"

\* the level of the results of a record just created has been computed
C17_Witness ==
  /\ \E url \in Urls : arg = NewScanResult(1, url).results
  /\ ret = Returned([riskLevel |-> "unknown"])
\* ------------------------------------------------------------------ C18
\* C18: a read (GET /:scanId, GET /:scanId/status, GET /) leaves the store as
\* it was, and a request repeated on the unchanged store gets the response
\* it got before: the same riskLevel, summary and recommendations, nothing
\* added.
C18_ReadsChangeNothing ==
  [][/\ scanResults' = scanResults
     /\ (ret # Null /\ arg' = arg) => ret' = ret]_vars

\* a completed scan with recommendations has been read, and the list in the
\* response is the stored one
C18_Witness ==
  /\ ret # Null
  /\ arg = [route |-> "GET /:scanId", scanId |-> 1]
  /\ ret.value.code = 200
  /\ ret.value.status = "completed"
  /\ ret.value.riskLevel = "medium"
  /\ Len(ret.value.results.recommendations) > 1
  /\ ret.value.results.recommendations = scanResults[1].results.recommendations
\* ------------------------------------------------------------------ C19
\* the place of a recommendation in the order critical, high, medium, low,
\* unranked
PriorityClass(rec) ==
  IF "priority" \notin DOMAIN rec THEN 4
  ELSE CASE rec.priority = "critical" -> 0
         [] rec.priority = "high" -> 1
         [] rec.priority = "medium" -> 2
         [] rec.priority = "low" -> 3
         [] OTHER -> 4

Priorities(recs) ==
  [i \in 1..Len(recs) |-> IF "priority" \in DOMAIN recs[i] THEN recs[i].priority ELSE "(none)"]

\* C19: the sorted list holds the recommendations of the input, the critical
\* ones first, then high, medium, low, then those without a known priority;
\* recommendations of one priority are in the order they had in the input; and
\* low, critical, medium, high comes out as critical, high, medium, low.
C19_SortedByPriority ==
  ret # Null =>
    LET out == ret.value
    IN  /\ Len(out) = Len(arg)
        /\ \A i \in 1..Len(arg) : \E j \in 1..Len(out) : out[j] = arg[i]
        /\ \A i, j \in 1..Len(out) :
             i < j =>
               /\ PriorityClass(out[i]) <= PriorityClass(out[j])
               /\ PriorityClass(out[i]) = PriorityClass(out[j])
                    => out[i].message < out[j].message
        /\ Priorities(arg) = << "low", "critical", "medium", "high" >>
             => Priorities(out) = << "critical", "high", "medium", "low" >>

\* two unranked recommendations and two high ones, given in the order
\* unknown, high, none, high, have been sorted
C19_Witness ==
  /\ ret # Null
  /\ Priorities(arg) = << "urgent", "high", "(none)", "high" >>
  /\ Priorities(ret.value) = << "high", "high", "urgent", "(none)" >>

\* ------------------------------------------------------------------ C20
\* the recommendations the analyzers of a record gave, over all dimensions
EmittedBy(results) ==
  UNION { {results[d].recommendations[i] :
             i \in 1..Len(FieldOr(results[d], "recommendations", <<>>))} :
          d \in {k \in ResultKeys : results[k] # Null} }

\* C20: the recommendations stored for a completed scan are those its
\* analyzers gave: each of them is in the stored list as given, and the
\* stored list holds nothing else.
C20_CompiledFromAnalyzers ==
  \A id \in ScanIds :
    (HasRecord(id) /\ scanResults[id].status = "completed") =>
      LET results == scanResults[id].results
          compiled == results.recommendations
      IN  /\ \A r \in EmittedBy(results) : SeqContains(compiled, r)
          /\ \A i \in 1..Len(compiled) : compiled[i] \in EmittedBy(results)
\* ------------------------------------------------------------------ C21
\* C21: when something fails inside analyze, the analyzer returns a result
\* with score 0, with error set and with at least one recommendation.
C21_FailureBecomesResult ==
  (ret # Null /\ "failure" \in DOMAIN arg) =>
    LET result == ret.value
    IN  /\ "score" \in DOMAIN result /\ result.score = 0
        /\ "error" \in DOMAIN result
        /\ "recommendations" \in DOMAIN result /\ Len(result.recommendations) >= 1
\* ------------------------------------------------------------------ C22
\* C22: for every SSL score from 0 to 100 the grade is A+ from 90 up, A from
\* 80, B from 70, C from 60, D from 40 and F below 40 (92 is A+, 55 is D, 10
\* is F), and no other grade is produced.
C22_GradeBands ==
  ret # Null =>
    /\ ret.value \in {"A+", "A", "B", "C", "D", "F"}
    /\ ret.value = "A+" <=> arg >= 90
    /\ ret.value = "A" <=> (arg >= 80 /\ arg < 90)
    /\ ret.value = "B" <=> (arg >= 70 /\ arg < 80)
    /\ ret.value = "C" <=> (arg >= 60 /\ arg < 70)
    /\ ret.value = "D" <=> (arg >= 40 /\ arg < 60)
    /\ ret.value = "F" <=> arg < 40
C24_InvalidUrlRejected ==
  [][(ret = Null /\ ret' # Null
      /\ (~arg.given \/ ~arg.parses \/ arg.scheme \notin {"http", "https"}))
     => /\ ret'.value.code = 400
        /\ scanResults' = scanResults
        /\ pc' = pc
        /\ invoked' = invoked]_vars

\* a request with an ftp url has been answered and the store is empty
C24_Witness ==
  /\ ret # Null
  /\ arg.given /\ arg.parses /\ arg.scheme = "ftp"
  /\ ret.value.code = 400
  /\ \A id \in ScanIds : scanResults[id] = NoRecord /\ pc[id] = "none"
\* ------------------------------------------------------------------ C25
\* the keys of the record's results whose value the step changes
ChangedKeys(id) ==
  { k \in DOMAIN scanResults[id].results :
      scanResults'[id].results[k] # scanResults[id].results[k] }

\* C25: a result stored under a dimension is never changed afterwards; a
\* pipeline step writes under its own dimension only, the completion writes
\* riskScore and recommendations only, and no other step writes under results.
C25_StoredResultKept ==
  [][\A id \in ScanIds :
       (scanResults[id] # NoRecord /\ scanResults'[id] # NoRecord) =>
         /\ \A d \in ResultKeys :
              scanResults[id].results[d] # Null =>
                scanResults'[id].results[d] = scanResults[id].results[d]
         /\ pc[id] = "await" => ChangedKeys(id) \subseteq {scanSteps[stepIdx[id]].name}
         /\ pc[id] = "finish" => ChangedKeys(id) \subseteq {"riskScore", "recommendations"}
         /\ pc[id] \notin {"await", "finish"} => ChangedKeys(id) = {}]_vars

\* a completed record: a step failed after two results were stored, the other
\* results are there, and the aggregates have been written
C25_Witness ==
  \E id \in ScanIds :
    /\ scanResults[id] # NoRecord
    /\ scanResults[id].status = "completed"
    /\ scanResults[id].results.malware = FullResult("malware")
    /\ scanResults[id].results.ssl = FullResult("ssl")
    /\ scanResults[id].results.headers = Null
    /\ Len(scanResults[id].errors) = 1
    /\ scanResults[id].results.whois # Null
    /\ scanResults[id].results.riskScore # Null
\* ------------------------------------------------------------------ C26
\* C26: whatever analyze returns, from its normal path or from its catch
\* block, carries a score, and the score is within 0..100.
C26_ScoreInRange ==
  ret # Null =>
    /\ "score" \in DOMAIN ret.value
    /\ ret.value.score \in 0..100

\* ------------------------------------------------------------------ C28
\* the recommendations of the result hold the recommendation for this header
RecommendsHeader(result, header) ==
  \E i \in 1..Len(result.recommendations) :
    result.recommendations[i] = StrRec(HeaderRecommendation(header))

\* C28: for every header the Headers result lists as missing, its
\* recommendations hold the recommendation for that header, whichever way
\* analyze returned.
C28_MissingHeaderRecommended ==
  (ret # Null /\ arg.analyzer = "HeadersAnalyzer") =>
    \A i \in 1..Len(ret.value.missingHeaders) :
      RecommendsHeader(ret.value, ret.value.missingHeaders[i])
\* ------------------------------------------------------------------ C29
\* the number of steps the task of scan id has been through
FinishedSteps(id) ==
  CASE pc[id] \in {"none", "start"} -> 0
    [] pc[id] \in {"invoke", "await", "pending"} -> stepIdx[id] - 1
    [] pc[id] = "delay" -> stepIdx[id]
    [] pc[id] = "finish" -> NumSteps
    [] pc[id] = "done" ->
         IF scanResults[id].status = "completed" THEN NumSteps ELSE stepIdx[id] - 1

\* C29: whenever the component takes over a polled progress, the steps it
\* shows completed are exactly the steps the orchestrator has been through,
\* and while a step is left its current step, shown active, is the step the
\* orchestrator runs next.
C29_ClientFollowsServer ==
  [][(ret' # ret /\ ~ret'.value.error) =>
       LET k == FinishedSteps(arg)
           state == ret'.value
       IN  /\ \A i \in 1..Len(ClientScanSteps) :
                getStepStatus(state, ClientScanSteps[i]) = "completed" <=> i <= k
           /\ k < NumSteps =>
                /\ state.currentStep = scanSteps[k + 1].name
                /\ getStepStatus(state, state.currentStep) = "active"]_vars

\* the component has polled 75 while the orchestrator is in its fifth step
C29_Witness ==
  /\ ret # Null
  /\ ret.value.progress = 75
  /\ ret.value.currentStep = "ports"
  /\ getStepStatus(ret.value, "tech") = "completed"
  /\ pc[arg] = "await" /\ stepIdx[arg] = 5
\* ------------------------------------------------------------------ C27
\* the sections present in a scanData: those of the map it is, or of the map
\* it holds under results
SectionsOf(scanData) ==
  IF scanData = Null THEN {}
  ELSE IF "results" \in DOMAIN scanData THEN DOMAIN scanData.results
  ELSE DOMAIN scanData

\* C27: the details of every section present in scanData are rendered, however
\* many sections there are, and nothing is rendered for null or the empty
\* object.
C27_EverySectionRendered ==
  ret # Null =>
    /\ \A name \in SectionsOf(arg) :
         \E i \in 1..Len(ret.value) :
           ret.value[i].section = name /\ ret.value[i].details
    /\ (arg = Null \/ DOMAIN arg = {}) => ret.value = <<>>
\* ------------------------------------------------------------------ C30
\* C30: the counts of a summary add up, totalChecks = passedChecks +
\* failedChecks + warnings, and totalChecks is the number of the dimensions
\* ssl, headers, malware and ports that have a result, so at most 4: each
\* of them is counted once, as passed, failed or warning.
C30_SummaryAddsUp ==
  ret # Null =>
    LET summary == ret.value
    IN  /\ summary.totalChecks
             = summary.passedChecks + summary.failedChecks + summary.warnings
        /\ summary.totalChecks
             = Cardinality({d \in {"ssl", "headers", "malware", "ports"} : arg[d] # Null})
        /\ summary.totalChecks <= 4
        /\ summary.passedChecks >= 0 /\ summary.failedChecks >= 0 /\ summary.warnings >= 0

\* all four dimensions counted: one passed, one failed and two warnings
C30_Witness ==
  /\ ret # Null
  /\ arg.headers = [score |-> 79]
  /\ ret.value = [totalChecks |-> 4, passedChecks |-> 1, failedChecks |-> 1,
                  warnings |-> 2]
====
